---- MODULE Spec2Model ----
(***************************************************************************)
(* State-machine model of the API registry engine: the registry store,    *)
(* the metadata reconciler (populateMetadata), the candidate selector      *)
(* (getCandidates), driver dispatch (runDrivers), the lead reconciler      *)
(* (trimLeads) and the per-candidate commands driven by main.              *)
(*                                                                         *)
(* JavaScript objects are modelled as association lists (sequences of      *)
(* [k, v] records) so that `for (key in obj)` walks keys in insertion      *)
(* order, as the engine does.  VersionEntry objects live in a heap and are *)
(* referred to by identity, because candidates alias registry nodes.       *)
(* Strings that the code takes apart (versions, file names, pathspecs) are *)
(* sequences of characters; a few fixed words are single tokens.           *)
(***************************************************************************)
EXTENDS Integers, Sequences, FiniteSets, TLC

(***************************************************************************)
(* Bounds of the model                                                     *)
(***************************************************************************)
MaxObj == 5
MaxNow == 2
MaxCalls == 3

(***************************************************************************)
(* Values                                                                  *)
(***************************************************************************)
Undef == "undef"
NoFile == << >>
Free == [free |-> TRUE]
PatchKey == <<"patch">>
ObjIds == 1..MaxObj

Providers == {"p", "q"}
Services == {"", "s"}
VersionDirs == {<<"a">>, <<"b">>}
Urls == {"u1", "u2"}
Hashes == {"h1", "h2"}
Tristate == {Undef, "true", "false"}

(***************************************************************************)
(* Association lists: JavaScript objects with insertion-ordered keys       *)
(***************************************************************************)
Has(m, key) == \E i \in 1..Len(m) : m[i].k = key

IdxOf(m, key) == CHOOSE i \in 1..Len(m) : m[i].k = key

Get(m, key) == m[IdxOf(m, key)].v

Put(m, key, val) ==
  IF Has(m, key) THEN [m EXCEPT ![IdxOf(m, key)].v = val]
  ELSE Append(m, [k |-> key, v |-> val])

Del(m, key) == SelectSeq(m, LAMBDA e : e.k # key)

Keys(m) == {m[i].k : i \in 1..Len(m)}

(***************************************************************************)
(* Strings as character sequences                                          *)
(***************************************************************************)
StartsWith(s, prefix) ==
  /\ Len(prefix) <= Len(s)
  /\ \A i \in 1..Len(prefix) : s[i] = prefix[i]

RECURSIVE JoinPath(_)
JoinPath(segs) ==
  IF Len(segs) = 0 THEN << >>
  ELSE IF Len(segs) = 1 THEN segs[1]
  ELSE segs[1] \o <<"/">> \o JoinPath(Tail(segs))

\* src/unnamed/part_000:30  defaultPathSpec = path.relative('.', 'APIs')
defaultPathSpec == <<"APIs">>

ProviderPath(p) == <<p>>
ServicePath(s) == <<s>>

\* the relative path APIs/<provider>/[<service>/]<version>/<name>
FileNameOf(p, s, v, name) ==
  JoinPath(<<defaultPathSpec, ProviderPath(p)>>
           \o (IF s = "" THEN << >> ELSE <<ServicePath(s)>>)
           \o <<v, <<name>>>>)

FirstSlash(s) == CHOOSE i \in 1..Len(s) : s[i] = "/" /\ \A j \in 1..(i-1) : s[j] # "/"

\* String.prototype.split('/')
RECURSIVE Split(_)
Split(s) ==
  IF \A i \in 1..Len(s) : s[i] # "/" THEN <<s>>
  ELSE <<SubSeq(s, 1, FirstSlash(s) - 1)>> \o Split(SubSeq(s, FirstSlash(s) + 1, Len(s)))

\* Array.prototype.pop: the array without its last element
Pop(a) == IF Len(a) = 0 THEN a ELSE SubSeq(a, 1, Len(a) - 1)

\* the element pop() returns (undefined on an empty array)
Last(a) == IF Len(a) = 0 THEN <<Undef>> ELSE a[Len(a)]

(***************************************************************************)
(* State                                                                   *)
(***************************************************************************)
VARIABLES
  now,        \* run token of this process (module constant `now`)
  metadata,   \* the registry: provider -> Provider record
  heap,       \* VersionEntry objects by identity
  apis,       \* the discovered documents (module variable `apis`)
  op,         \* the operation that made the last step
  calls,      \* number of operations made so far (bounds the exploration)
  epoch,      \* number of loadMetadata calls of this process: the objects of
              \* one load are distinct from those of every other load
  command,    \* main's command
  pathspec,   \* main's pathspec
  argv,       \* main's options
  candidates, \* the list getCandidates returned
  drivers,    \* the driver grouping: driver -> provider -> Provider record
  leads,      \* the leads the drivers found: url -> lead
  pc,         \* where main is
  idx,        \* position of the loop main is in
  invoked,    \* how often a driver function was invoked for a provider in this run
  res,        \* what the collaborator called in the last step answered
  newCandidates, \* the candidates add created
  failures,   \* the Failure Ledger
  exitCode,   \* process.exitCode
  registryYaml, \* the content of metadata/registry.yaml
  report,     \* the failure report files: command -> content
  metadataConsistent \* the flag saveMetadata sets

mainVars == <<leads, pc, idx, invoked, res, newCandidates, failures, exitCode>>

storeVars == <<registryYaml, report, metadataConsistent>>

runVars == <<epoch, command, pathspec, argv, candidates, drivers, mainVars, storeVars>>

vars == <<now, metadata, heap, apis, op, calls, runVars>>

(***************************************************************************)
(* The registry tree                                                       *)
(***************************************************************************)
\* a Provider record; tree = TRUE when it is an auto-vivifying Tree proxy
\* gen is the load the object belongs to (its identity, with its key)
NewProvider(isTree, gen) ==
  [driver |-> "url", apis |-> << >>, patch |-> 0, data |-> FALSE, tree |-> isTree,
   gen |-> gen, method |-> FALSE]

\* a VersionEntry with no field set
EmptyEntry ==
  [name |-> NoFile, openapi |-> Undef, preferred |-> Undef, filename |-> NoFile,
   url |-> Undef, hash |-> Undef, run |-> 0, added |-> 0, updated |-> 0,
   statusCode |-> 0, valid |-> Undef, cached |-> NoFile, vpatch |-> FALSE]

Range(a) == {a[i] : i \in 1..Len(a)}

\* the (provider, service, version) triples of the registry, 'patch' keys left out
Triples(m) ==
  UNION {UNION {{<<pe.k, se.k, ve.k>> : ve \in {x \in Range(se.v) : x.k # PatchKey}} :
                  se \in Range(pe.v.apis)} :
           pe \in Range(m)}

EntryId(m, p, s, v) == Get(Get(Get(m, p).apis, s), v)

EntryAt(m, h, t) == h[EntryId(m, t[1], t[2], t[3])]

HasEntry(m, p, s, v) ==
  /\ Has(m, p)
  /\ Has(Get(m, p).apis, s)
  /\ Has(Get(Get(m, p).apis, s), v)

\* identities of the entries the registry holds
RegistryIds(m) == {EntryId(m, t[1], t[2], t[3]) : t \in Triples(m)}

\* the smallest identity that is not in use
FreshId(h) == CHOOSE i \in ObjIds : h[i] = Free /\ \A j \in 1..(i-1) : h[j] # Free

HeapFull(h) == \A i \in ObjIds : h[i] # Free

\* objects no longer referenced from the registry or from `roots` are collected
Collect(h, m, roots) ==
  [i \in ObjIds |-> IF i \in RegistryIds(m) \cup roots THEN h[i] ELSE Free]

(***************************************************************************)
(* Metadata Reconciler: populateMetadata                                   *)
(***************************************************************************)
SmallLimit == 50

\* a marking phase that ignores the small option
MarkEntryAnySize(m, h, t, spec, small, token) ==
  LET md == h[EntryId(m, t[1], t[2], t[3])] IN
  IF md.filename # NoFile /\ StartsWith(md.filename, spec)
  THEN [md EXCEPT !.run = token]
  ELSE md

\* marking phase: the loop body for one entry
MarkEntry(m, h, t, spec, small, token) ==
  LET md == h[EntryId(m, t[1], t[2], t[3])] IN
  IF /\ md.filename # NoFile
     /\ StartsWith(md.filename, spec)
     /\ (~small \/ Len(Get(m, t[1]).apis) < SmallLimit)
  THEN [md EXCEPT !.run = token]
  ELSE md

MarkAll(m, h, spec, small, token) ==
  [i \in ObjIds |->
     IF \E t \in Triples(m) : EntryId(m, t[1], t[2], t[3]) = i
     THEN MarkEntry(m, h, CHOOSE t \in Triples(m) : EntryId(m, t[1], t[2], t[3]) = i,
                    spec, small, token)
     ELSE h[i]]

\* a destructive replace: nothing of the prior entry survives
ReplaceEntry(old, entry) ==
  [EmptyEntry EXCEPT !.name = entry.name, !.openapi = entry.openapi,
                     !.preferred = entry.preferred, !.filename = entry.filename,
                     !.url = entry.url, !.hash = entry.hash, !.run = entry.run]

\* Object.assign({}, old, entry): every key of entry overwrites, also when its
\* value is undefined; the other fields of old survive
AssignEntry(old, entry) ==
  [old EXCEPT !.name = entry.name, !.openapi = entry.openapi,
              !.preferred = entry.preferred, !.filename = entry.filename,
              !.url = entry.url, !.hash = entry.hash, !.run = entry.run]

\* a reconciler that moves the stamp at every call
SetAddedLater(merged, token) == [merged EXCEPT !.added = @ + token]

\* a reconciler that stamps every merged entry
SetAddedAlways(merged, token) == [merged EXCEPT !.added = token]

\* if (...added === undefined) ...added = now
SetAdded(merged, token) ==
  IF merged.added = 0 THEN [merged EXCEPT !.added = token] ELSE merged

\* a reconciler that files a document under its info.version
VersionKeyFromInfo(api) == api.version

\* name = comp.pop(); version = comp.pop(): the directory of the file
VersionKey(api) == Last(Pop(Split(api.filename)))

\* ingestion phase: the loop body for one discovered document
\* st = [m |-> registry, h |-> heap]
IngestDoc(st, api, token, gen) ==
  LET comp0 == Split(api.filename)
      name == Last(comp0)
      version == VersionKey(api)
      serviceName == api.service
      providerName == api.provider
      entry == [name |-> name, openapi |-> api.openapi, preferred |-> api.preferred,
                filename |-> api.filename, url |-> api.url, hash |-> api.hash,
                run |-> token]
      m1 == IF Has(st.m, providerName) THEN st.m
            ELSE Put(st.m, providerName, NewProvider(TRUE, gen))
      p1 == Get(m1, providerName)
      p2 == IF api.parentPatch # 0 THEN [p1 EXCEPT !.patch = api.parentPatch] ELSE p1
      a1 == IF Has(p2.apis, serviceName) THEN p2.apis ELSE Put(p2.apis, serviceName, << >>)
      s1 == Get(a1, serviceName)
      s2 == IF api.patch # 0 THEN Put(s1, PatchKey, api.patch) ELSE s1
      old == IF Has(s2, version) THEN st.h[Get(s2, version)] ELSE EmptyEntry
      merged == AssignEntry(old, entry)
      withAdded == SetAdded(merged, token)
      final == [withAdded EXCEPT !.vpatch = FALSE]
      id == FreshId(st.h)
      s3 == Put(s2, version, id)
      p3 == [p2 EXCEPT !.apis = Put(a1, serviceName, s3), !.data = FALSE]
  IN [m |-> Put(m1, providerName, p3), h |-> [st.h EXCEPT ![id] = final]]

RECURSIVE IngestAll(_, _, _, _, _)
IngestAll(st, found, token, roots, gen) ==
  IF Len(found) = 0 THEN st
  ELSE LET r == IngestDoc(st, Head(found).v, token, gen)
       IN IngestAll([m |-> r.m, h |-> Collect(r.h, r.m, roots)], Tail(found), token,
                    roots, gen)

\* populateMetadata(apis, pathspec, argv); roots are entries candidates still refer to
populateMetadata(m, h, found, spec, small, token, roots, gen) ==
  LET marked == IF Len(found) = 0 THEN MarkAll(m, h, spec, small, token) ELSE h
  IN IngestAll([m |-> m, h |-> marked], found, token, roots, gen)

(***************************************************************************)
(* Registries a process can load                                           *)
(***************************************************************************)
\* time stamp written by an earlier process; run tokens of the modelled
\* processes are larger
OldStamp == 1
FirstNow == OldStamp + 1

\* a VersionEntry as update/add left it in the persisted registry
SeedEntry(p, s, v, pref, status, added, run, url) ==
  [EmptyEntry EXCEPT !.name = <<"openapi.yaml">>, !.openapi = "3.0",
                     !.filename = FileNameOf(p, s, v, "openapi.yaml"),
                     !.preferred = pref, !.statusCode = status, !.added = added,
                     !.updated = added, !.run = run, !.url = url, !.hash = "h1",
                     !.valid = "true"]

\* the registry with one more entry, as yamlParse builds it (plain objects)
WithEntry(st, p, s, v, e) ==
  LET m1 == IF Has(st.m, p) THEN st.m ELSE Put(st.m, p, NewProvider(FALSE, 1))
      p1 == Get(m1, p)
      a1 == IF Has(p1.apis, s) THEN p1.apis ELSE Put(p1.apis, s, << >>)
      id == FreshId(st.h)
  IN [m |-> Put(m1, p, [p1 EXCEPT !.apis = Put(a1, s, Put(Get(a1, s), v, id))]),
      h |-> [st.h EXCEPT ![id] = e]]

EmptyRegistry == [m |-> << >>, h |-> [i \in ObjIds |-> Free]]

\* no run of main has started
NoArgv ==
  [driver |-> Undef, small |-> FALSE, skipDrivers |-> FALSE, service |-> Undef,
   cached |-> NoFile, providerKey |-> Undef]

NoRes == [kind |-> "none"]

IdleRun ==
  /\ epoch = 1
  /\ command = Undef
  /\ pathspec = defaultPathSpec
  /\ argv = NoArgv
  /\ candidates = << >>
  /\ drivers = << >>
  /\ leads = << >>
  /\ pc = "idle"
  /\ idx = 0
  /\ invoked = [p \in Providers |-> 0]
  /\ res = NoRes
  /\ newCandidates = << >>
  /\ failures = << >>
  /\ exitCode = 0
  /\ report = << >>
  /\ metadataConsistent = FALSE

\* registries for the reconciler: empty, or one entry left by earlier runs
ReconcileSeeds ==
  {EmptyRegistry} \cup
  {WithEntry(EmptyRegistry, "p", "", <<"a">>,
             SeedEntry("p", "", <<"a">>, c[1][1], c[1][2], c[2], OldStamp, "u1")) :
     c \in {<<"true", 0>>, <<"false", 404>>, <<Undef, 0>>} \X {0, OldStamp}}

(***************************************************************************)
(* Discovered documents (the values gather stores in `apis`)               *)
(***************************************************************************)
\* a document found at APIs/<p>/[<s>/]<v>/openapi.yaml
Doc(p, s, v, pref, url, patches) ==
  [filename |-> FileNameOf(p, s, v, "openapi.yaml"), provider |-> p, service |-> s,
   openapi |-> "3.0", preferred |-> pref, url |-> url, hash |-> "h2",
   patch |-> patches, parentPatch |-> patches]

DocSlots == {<<"p", "", <<"a">>>>, <<"p", "", <<"b">>>>, <<"q", "s", <<"a">>>>}

\* documents with and without an x-preferred marker, and some carrying patches
ReconcileDocs ==
  {Doc(c[1][1], c[1][2], c[1][3], c[2], "u1", 0) : c \in DocSlots \X {Undef, "true"}}
  \cup {Doc(t[1], t[2], t[3], Undef, "u1", 1) : t \in DocSlots}

MaxDocs == 1

\* `apis` objects: documents keyed by their file name
RECURSIVE ApiMaps(_, _)
ApiMaps(docs, n) ==
  IF n = 0 THEN {<< >>}
  ELSE LET shorter == ApiMaps(docs, n - 1)
       IN shorter \cup
          {Append(a, [k |-> d.filename, v |-> d]) :
             <<a, d>> \in {x \in shorter \X docs : ~Has(x[1], x[2].filename)}}

PathSpecs == {defaultPathSpec, JoinPath(<<defaultPathSpec, ProviderPath("p")>>)}

UsedIds(h) == {i \in ObjIds : h[i] # Free}

(***************************************************************************)
(* Specification of the reconciler: any sequence of populateMetadata       *)
(* calls, in one process or across processes                               *)
(***************************************************************************)
ReconcileInit ==
  /\ now = FirstNow
  /\ \E r \in ReconcileSeeds : metadata = r.m /\ heap = r.h
  /\ apis = << >>
  /\ op = "init"
  /\ calls = 0
  /\ registryYaml = << >>
  /\ IdleRun

Reconcile ==
  \E a \in ApiMaps(ReconcileDocs, MaxDocs), spec \in PathSpecs, small \in BOOLEAN :
    \* pathspec and small are read in the marking phase only
    /\ Len(a) > 0 => (spec = defaultPathSpec /\ ~small)
    /\ calls < MaxCalls
    /\ Cardinality(UsedIds(heap)) + Len(a) <= MaxObj
    /\ LET r == populateMetadata(metadata, heap, a, spec, small, now, {}, epoch)
       IN metadata' = r.m /\ heap' = r.h
    /\ apis' = a
    /\ op' = "populateMetadata"
    /\ calls' = calls + 1
    /\ UNCHANGED <<now, runVars>>

\* the registry is saved, the process ends and a later process loads it:
\* the Tree proxies and the transient data fields do not survive the file
Reloaded(m, gen) ==
  [i \in 1..Len(m) |-> [m[i] EXCEPT !.v.tree = FALSE, !.v.data = FALSE, !.v.gen = gen]]

NextProcess ==
  /\ now < FirstNow + MaxNow - 1
  /\ now' = now + 1
  /\ metadata' = Reloaded(metadata, 1)
  /\ apis' = << >>
  /\ op' = "loadMetadata"
  /\ UNCHANGED <<heap, calls, runVars>>

ReconcileNext == Reconcile \/ NextProcess

ReconcileSpec == ReconcileInit /\ [][ReconcileNext]_vars

(***************************************************************************)
(* Properties of the reconciler                                            *)
(***************************************************************************)
\* the triple populateMetadata files a discovered document under
DocTriple(d) == <<d.provider, d.service, Last(Pop(Split(d.filename)))>>

\* C1: once an entry has an added value no populateMetadata call changes it,
\* and an entry that had none ends a call with none or with the run token
AddedOnce ==
  [][\A t \in Triples(metadata') :
       IF t \in Triples(metadata) /\ EntryAt(metadata, heap, t).added # 0
       THEN EntryAt(metadata', heap', t).added = EntryAt(metadata, heap, t).added
       ELSE /\ EntryAt(metadata', heap', t).added \in {0, now'}
            /\ (calls' # calls /\ \E i \in 1..Len(apis') : DocTriple(apis'[i].v) = t)
                 => EntryAt(metadata', heap', t).added = now']_vars

\* an entry stamped by an earlier process has just been ingested again
AddedOnceWitness ==
  /\ op = "populateMetadata"
  /\ \E i \in 1..Len(apis) :
       LET e == EntryAt(metadata, heap, DocTriple(apis[i].v))
       IN e.added = OldStamp /\ e.run = now /\ e.hash = apis[i].v.hash

\* C2 as stated: a document without x-preferred leaves the prior preferred and
\* statusCode of an existing entry unchanged
MergeKeepsPreferredAndStatus ==
  [][calls' # calls =>
       \A i \in 1..Len(apis') :
         LET d == apis'[i].v
             t == DocTriple(d)
         IN (t \in Triples(metadata) /\ d.preferred = Undef) =>
              /\ EntryAt(metadata', heap', t).preferred = EntryAt(metadata, heap, t).preferred
              /\ EntryAt(metadata', heap', t).statusCode = EntryAt(metadata, heap, t).statusCode]_vars

\* C2 amended: a document without x-preferred leaves the prior statusCode of an
\* existing entry unchanged, and overwrites its preferred value with undefined
MergeKeepsStatusOnly ==
  [][calls' # calls =>
       \A i \in 1..Len(apis') :
         LET d == apis'[i].v
             t == DocTriple(d)
         IN (t \in Triples(metadata) /\ d.preferred = Undef) =>
              /\ EntryAt(metadata', heap', t).preferred = Undef
              /\ EntryAt(metadata', heap', t).statusCode = EntryAt(metadata, heap, t).statusCode]_vars

\* an entry that held a status code (and with it a preferred value) has been
\* ingested again from a document without x-preferred
MergeWitness ==
  /\ op = "populateMetadata"
  /\ \E i \in 1..Len(apis) :
       LET e == EntryAt(metadata, heap, DocTriple(apis[i].v))
       IN /\ apis[i].v.preferred = Undef
          /\ e.statusCode = 404 /\ e.preferred = Undef /\ e.run = now

(***************************************************************************)
(* Candidate Selector: getCandidates                                       *)
(***************************************************************************)
DriverNames == {"url", "google", "github"}

\* JavaScript truthiness of an optional string
Truthy(x) == x \notin {Undef, ""}

RECURSIVE Concat(_)
Concat(ss) == IF Len(ss) = 0 THEN << >> ELSE Head(ss) \o Concat(Tail(ss))

\* the keys the three nested for..in loops visit, in order ('patch' included)
WalkService(p, se) == [n \in 1..Len(se.v) |-> <<p, se.k, se.v[n].k>>]

WalkProvider(pe) == Concat([j \in 1..Len(pe.v.apis) |-> WalkService(pe.k, pe.v.apis[j])])

Walk(m) == Concat([i \in 1..Len(m) |-> WalkProvider(m[i])])

\* a selector without the 'none' override
ReturnAllDefaultOnly(cmd, spec, filter) == spec = defaultPathSpec /\ cmd # "update"

ReturnAll(cmd, spec, filter) ==
  filter = "none" \/ (spec = defaultPathSpec /\ cmd # "update")

\* a selector that takes every entry that carries any run marker
SelectedAnyRun(m, h, t, all, driver, token) ==
  /\ t[3] # PatchKey
  /\ \/ all
     \/ Truthy(driver) /\ driver = Get(m, t[1]).driver
     \/ ~Truthy(driver) /\ EntryAt(m, h, t).run # 0

\* the condition of the innermost loop
Selected(m, h, t, all, driver, token) ==
  /\ t[3] # PatchKey
  /\ \/ all
     \/ Truthy(driver) /\ driver = Get(m, t[1]).driver
     \/ ~Truthy(driver) /\ EntryAt(m, h, t).run = token

Candidate(m, h, t, found) ==
  [provider |-> t[1], driver |-> Get(m, t[1]).driver, service |-> t[2],
   version |-> t[3], gp |-> Get(m, t[1]).gen, md |-> EntryId(m, t[1], t[2], t[3]),
   info |-> Has(found, EntryAt(m, h, t).filename)]

\* a grouping that records one item per selected version
RegisterEach(drv, driver, provider, gen) ==
  IF Has(drv, driver)
  THEN Put(drv, driver, Append(Get(drv, driver), [k |-> provider, v |-> gen]))
  ELSE Put(drv, driver, <<[k |-> provider, v |-> gen]>>)

\* drivers.get(driver).set(provider, metadata[provider]), creating the inner Map
RegisterDriver(drv, driver, provider, gen) ==
  IF Has(drv, driver)
  THEN Put(drv, driver, Put(Get(drv, driver), provider, gen))
  ELSE Put(drv, driver, <<[k |-> provider, v |-> gen]>>)

RECURSIVE RegisterAll(_, _)
RegisterAll(drv, cands) ==
  IF Len(cands) = 0 THEN drv
  ELSE RegisterAll(RegisterDriver(drv, Head(cands).driver, Head(cands).provider,
                                  Head(cands).gp),
                   Tail(cands))

\* getCandidates(command, pathspec, argv): the list and the grouping it leaves
getCandidates(m, h, cmd, spec, filter, token, found, drv) ==
  LET all == ReturnAll(cmd, spec, filter)
      driver == IF all THEN Undef ELSE filter
      walk == Walk(m)
      chosen == SelectSeq(walk, LAMBDA t : Selected(m, h, t, all, driver, token))
      result == [i \in 1..Len(chosen) |-> Candidate(m, h, chosen[i], found)]
  IN [result |-> result, drivers |-> RegisterAll(drv, result)]

(***************************************************************************)
(* Registries for the selector                                             *)
(***************************************************************************)
WithPatch(st, p, s, payload) ==
  LET m1 == IF Has(st.m, p) THEN st.m ELSE Put(st.m, p, NewProvider(FALSE, 1))
      p1 == Get(m1, p)
      a1 == IF Has(p1.apis, s) THEN p1.apis ELSE Put(p1.apis, s, << >>)
  IN [m |-> Put(m1, p, [p1 EXCEPT !.apis = Put(a1, s, Put(Get(a1, s), PatchKey, payload))]),
      h |-> st.h]

WithDriver(st, p, driver) ==
  IF Has(st.m, p)
  THEN [m |-> Put(st.m, p, [Get(st.m, p) EXCEPT !.driver = driver]), h |-> st.h]
  ELSE st

\* a registry file read key by key
RECURSIVE BuildRegistry(_, _)
BuildRegistry(st, items) ==
  IF Len(items) = 0 THEN st
  ELSE LET it == Head(items)
           next == IF it.kind = "entry" THEN WithEntry(st, it.p, it.s, it.ver, it.e)
                   ELSE IF it.kind = "patch" THEN WithPatch(st, it.p, it.s, it.payload)
                   ELSE WithDriver(st, it.p, it.driver)
       IN BuildRegistry(next, Tail(items))

EntryItem(p, s, v, e) == [kind |-> "entry", p |-> p, s |-> s, ver |-> v, e |-> e]
PatchItem(p, s, payload) == [kind |-> "patch", p |-> p, s |-> s, payload |-> payload]
DriverItem(p, d) == [kind |-> "driver", p |-> p, driver |-> d]

\* the entry of slot t, absent (run = 0) or carrying run marker `run`
SlotItems(t, run, url) ==
  IF run = 0 THEN << >>
  ELSE <<EntryItem(t[1], t[2], t[3],
                   SeedEntry(t[1], t[2], t[3], Undef, 0, OldStamp, run, url))>>

RunMarks == {0, OldStamp, FirstNow}

\* up to three entries under two providers, any run markers, with or without a
\* service-level patch, and the providers' drivers
SelectSeeds ==
  {BuildRegistry(EmptyRegistry,
                 (IF c[1][4] THEN <<PatchItem("p", "", 1)>> ELSE << >>)
                 \o SlotItems(<<"p", "", <<"a">>>>, c[1][1], "u1")
                 \o SlotItems(<<"p", "", <<"b">>>>, c[1][2], "u2")
                 \o SlotItems(<<"q", "s", <<"a">>>>, c[1][3], "u3")
                 \o <<DriverItem("p", c[2]), DriverItem("q", c[3])>>) :
     c \in (RunMarks \X RunMarks \X RunMarks \X BOOLEAN)
            \X {"url", "google"} \X {"google", "github"}}

Commands == {"update", "populate"}
DriverFilters == {Undef, "none", "google", "github"}

(***************************************************************************)
(* Specification of the selector: getCandidates called on any registry,    *)
(* any number of times, with the registry loaded again in between          *)
(***************************************************************************)
SelectInit ==
  /\ now = FirstNow
  /\ \E r \in SelectSeeds : metadata = r.m /\ heap = r.h
  /\ apis = << >>
  /\ op = "init"
  /\ calls = 0
  /\ registryYaml = << >>
  /\ IdleRun

SelectCall ==
  \E cmd \in Commands, spec \in PathSpecs, filter \in DriverFilters :
    /\ calls < MaxCalls
    /\ command' = cmd
    /\ pathspec' = spec
    /\ argv' = [argv EXCEPT !.driver = filter]
    /\ LET r == getCandidates(metadata, heap, cmd, spec, filter, now, apis, drivers)
       IN candidates' = r.result /\ drivers' = r.drivers
    /\ op' = "getCandidates"
    /\ calls' = calls + 1
    /\ UNCHANGED <<now, metadata, heap, apis, epoch, mainVars, storeVars>>

\* main is entered again: loadMetadata parses the registry file into new objects
SelectReload ==
  /\ op = "getCandidates"
  /\ calls < MaxCalls
  /\ epoch' = epoch + 1
  /\ metadata' = Reloaded(metadata, epoch + 1)
  /\ candidates' = << >>
  /\ op' = "loadMetadata"
  /\ UNCHANGED <<now, heap, apis, calls, command, pathspec, argv, drivers, mainVars,
                 storeVars>>

SelectNext == SelectCall \/ SelectReload

SelectSpec == SelectInit /\ [][SelectNext]_vars

(***************************************************************************)
(* Properties of the selector                                              *)
(***************************************************************************)
CandidateTriples == {<<candidates[i].provider, candidates[i].service, candidates[i].version>> :
                       i \in 1..Len(candidates)}

\* C3: getCandidates returns exactly the non-'patch' triples that select-all
\* mode, a matching driver filter, or (with no filter) the current run marker
\* selects; each of them once
SelectionExact ==
  op = "getCandidates" =>
    /\ CandidateTriples =
         {t \in Triples(metadata) :
            \/ argv.driver = "none"
            \/ (pathspec = defaultPathSpec /\ command # "update")
            \/ (argv.driver # Undef /\ argv.driver = Get(metadata, t[1]).driver)
            \/ (argv.driver = Undef /\ EntryAt(metadata, heap, t).run = now)}
    /\ Len(candidates) = Cardinality(CandidateTriples)
    /\ \A i \in 1..Len(candidates) : candidates[i].version # PatchKey

\* a filtered selection that took some entries and left others
SelectionExactWitness ==
  /\ op = "getCandidates"
  /\ command = "update"
  /\ argv.driver = Undef
  /\ Len(candidates) = 1
  /\ Cardinality(Triples(metadata)) = 3
  /\ \E pe \in Range(metadata) : \E se \in Range(pe.v.apis) : Has(se.v, PatchKey)

\* C4: with driver filter 'none' there is one candidate for every entry whose
\* version key is not 'patch', whatever the run markers, and nothing else
SelectAllCorrect ==
  (op = "getCandidates" /\ argv.driver = "none") =>
    /\ \A t \in Triples(metadata) :
         Cardinality({i \in 1..Len(candidates) :
            <<candidates[i].provider, candidates[i].service, candidates[i].version>> = t}) = 1
    /\ \A i \in 1..Len(candidates) :
         /\ candidates[i].version # PatchKey
         /\ HasEntry(metadata, candidates[i].provider, candidates[i].service,
                     candidates[i].version)

\* 'none' on an update of a sub-tree returned entries with stale and with no
\* current run marker, next to a 'patch' key
SelectAllWitness ==
  /\ op = "getCandidates"
  /\ argv.driver = "none" /\ command = "update" /\ pathspec # defaultPathSpec
  /\ Len(candidates) = 3
  /\ \E i \in 1..Len(candidates) : heap[candidates[i].md].run = OldStamp
  /\ \E i \in 1..Len(candidates) : heap[candidates[i].md].run = now
  /\ \E pe \in Range(metadata) : \E se \in Range(pe.v.apis) : Has(se.v, PatchKey)

\* C5: every returned candidate's provider is in the grouping under the
\* candidate's driver exactly once, mapped to the live Provider record
GroupingComplete ==
  op = "getCandidates" =>
    \A i \in 1..Len(candidates) :
      LET c == candidates[i] IN
      /\ Has(drivers, c.driver)
      /\ Cardinality({n \in 1..Len(Get(drivers, c.driver)) :
                        Get(drivers, c.driver)[n].k = c.provider}) = 1
      /\ Get(Get(drivers, c.driver), c.provider) = Get(metadata, c.provider).gen
      /\ c.driver = Get(metadata, c.provider).driver

\* two versions of one provider were selected, after the registry had been
\* loaded again
GroupingWitness ==
  /\ op = "getCandidates"
  /\ epoch > 1
  /\ \E i, j \in 1..Len(candidates) :
       i # j /\ candidates[i].provider = candidates[j].provider

(***************************************************************************)
(* Acquisition drivers: driverFuncs and runDrivers                         *)
(***************************************************************************)
MaxItems == 1

WorkDir == <<"/", "cwd", "/">>

\* path.resolve('.', ...segments)
Resolve(rel) == WorkDir \o rel

\* path.relative('.', file) for a file below the working directory
Relative(file) ==
  IF StartsWith(file, WorkDir) THEN SubSeq(file, Len(WorkDir) + 1, Len(file)) ELSE file

\* a lead: the value a driver stores in leads[url]
Lead(service, provider, preferred, file) ==
  [service |-> service, provider |-> provider, preferred |-> preferred, file |-> file]

\* u1 and u3 are source URLs of registry entries, u9 is a new document
LeadUrls == {"u1", "u3", "u9"}

\* item.preferred of a discovery document: absent, a boolean or another value
LeadPrefs == {Undef, "true", "false", "yes"}

\* the files of the unpacked archive, relative to the cache directory; the
\* service name is the base name without the extension
ArchiveFiles == {<<"s", ".yaml">>}

\* sequences of at most n url/lead pairs with distinct urls
RECURSIVE Items(_, _, _)
Items(n, urls, values) ==
  IF n = 0 THEN {<< >>}
  ELSE LET shorter == Items(n - 1, urls, values)
       IN shorter \cup
          {Append(x[1], [k |-> x[2], v |-> x[3]]) :
             x \in {y \in shorter \X urls \X values : ~Has(y[1], y[2])}}

\* the outcome of one driver call: a return value or an exception, the leads
\* stored, whether the response of the fetch was OK, and whether md.data was set
DriverResult(kind, items, ok, data) ==
  [kind |-> kind, items |-> items, ok |-> ok, data |-> data]

\* what one call driverFuncs[driver](provider, md) can do.  google and
\* apisjson do not look at the status: res.json() or the loop over the items
\* throws, or the body of the response is a document (with no item when the
\* status is not OK).  zip goes on to the next URL after a status that is not
\* OK
driverFuncs(driver, provider) ==
  IF driver = "google"
  THEN {DriverResult("throw", << >>, ok, FALSE) : ok \in BOOLEAN}
       \cup {DriverResult("true", << >>, FALSE, FALSE)}
       \cup {DriverResult("true", it, TRUE, FALSE) :
               it \in Items(MaxItems, LeadUrls,
                            {Lead("s", Undef, pr, NoFile) : pr \in LeadPrefs})}
  ELSE IF driver = "github"
  THEN {DriverResult("throw", << >>, TRUE, FALSE),
        DriverResult("false", << >>, FALSE, FALSE)} \cup
       {DriverResult("true", it, TRUE, FALSE) :
          it \in Items(MaxItems, LeadUrls,
                       {Lead(f[1], provider, Undef,
                             Resolve(<<"metadata", "/", provider, ".cache", "/">> \o f)) :
                          f \in ArchiveFiles})}
  ELSE IF driver = "apisjson"
  THEN {DriverResult("throw", << >>, ok, FALSE) : ok \in BOOLEAN}
       \cup {DriverResult("true", << >>, FALSE, FALSE)}
       \cup {DriverResult("true", it, TRUE, FALSE) :
               it \in Items(MaxItems, LeadUrls, {Lead("s", Undef, Undef, NoFile)})}
  ELSE IF driver = "zip"
  THEN {DriverResult("throw", << >>, TRUE, TRUE)}
       \cup {DriverResult("true", << >>, ok, TRUE) : ok \in BOOLEAN}
  ELSE {DriverResult("true", << >>, TRUE, FALSE)}

\* leads[url] = lead, for each item
RECURSIVE PutAll(_, _)
PutAll(ls, items) ==
  IF Len(items) = 0 THEN ls
  ELSE PutAll(Put(ls, Head(items).k, Head(items).v), Tail(items))

\* the (driver, provider) pairs the two nested loops of runDrivers visit
DriverPlan(drv) ==
  Concat([i \in 1..Len(drv) |->
            [j \in 1..Len(drv[i].v) |-> [driver |-> drv[i].k, provider |-> drv[i].v[j].k]]])

\* a runner that ignores the driver filter
DriverWantedAlways(filter, driver) == TRUE

\* if (!argv.driver || driver === argv.driver)
DriverWanted(filter, driver) == ~Truthy(filter) \/ driver = filter

\* a runner that finds no driver to invoke
NextWantedNone(plan, filter, from) == 0

\* the next pair after position `from` whose driver is invoked; 0 when none
NextWanted(plan, filter, from) ==
  LET later == {k \in (from + 1)..Len(plan) : DriverWanted(filter, plan[k].driver)}
  IN IF later = {} THEN 0 ELSE CHOOSE k \in later : \A j \in later : k <= j

(***************************************************************************)
(* Lead Reconciler: trimLeads                                              *)
(***************************************************************************)
\* a reconciler that matches a lead only to candidates of the lead's provider
LeadForSameProvider(ls, h, c) ==
  /\ Has(ls, h[c.md].url)
  /\ Get(ls, h[c.md].url).provider \in {Undef, c.provider}

\* if (leads[candidate.md.source.url])
LeadFor(ls, h, c) == Has(ls, h[c.md].url)

\* a test that takes every truthy value
IsTruthy(x) == x \in {"true", "yes"}

\* typeof x == 'boolean'
IsBoolean(x) == x \in {"true", "false"}

\* the body of the loop over the candidates
RECURSIVE FoldLeads(_, _, _)
FoldLeads(ls, h, cands) ==
  IF Len(cands) = 0 THEN [leads |-> ls, h |-> h]
  ELSE LET c == Head(cands) IN
       IF LeadFor(ls, h, c)
       THEN LET lead == Get(ls, h[c.md].url)
                md1 == IF lead.file # NoFile
                       THEN [h[c.md] EXCEPT !.cached = Relative(lead.file)]
                       ELSE h[c.md]
                md2 == IF IsBoolean(lead.preferred)
                       THEN [md1 EXCEPT !.preferred = lead.preferred]
                       ELSE md1
            IN FoldLeads(Del(ls, h[c.md].url), [h EXCEPT ![c.md] = md2], Tail(cands))
       ELSE FoldLeads(ls, h, Tail(cands))

trimLeads(ls, h, cands) ==
  IF Len(ls) > 0 THEN FoldLeads(ls, h, cands) ELSE [leads |-> ls, h |-> h]

(***************************************************************************)
(* gather: the definition files below the pathspec                         *)
(***************************************************************************)
\* the file an entry points to, as gather reads it; the files on disk are the
\* ones add and update wrote for the entries of the registry
FileOf(m, h, t) ==
  LET e == EntryAt(m, h, t) IN
  [filename |-> e.filename, provider |-> t[1], service |-> t[2], openapi |-> e.openapi,
   preferred |-> e.preferred, url |-> e.url, hash |-> e.hash, patch |-> 0,
   parentPatch |-> 0]

gather(m, h, spec) ==
  IF spec = defaultPathSpec THEN << >>
  ELSE LET below == SelectSeq(Walk(m), LAMBDA t :
                      /\ t[3] # PatchKey
                      /\ StartsWith(EntryAt(m, h, t).filename, spec \o <<"/">>))
       IN [i \in 1..Len(below) |->
             [k |-> EntryAt(m, h, below[i]).filename, v |-> FileOf(m, h, below[i])]]

(***************************************************************************)
(* Version keys                                                            *)
(***************************************************************************)
DefaultVersion == <<"1", ".", "0", ".", "0">>

\* s.split(pat).join(rep)
RECURSIVE SplitJoin(_, _, _)
SplitJoin(s, pat, rep) ==
  IF Len(s) < Len(pat) THEN s
  ELSE IF SubSeq(s, 1, Len(pat)) = pat
  THEN rep \o SplitJoin(SubSeq(s, Len(pat) + 1, Len(s)), pat, rep)
  ELSE <<Head(s)>> \o SplitJoin(Tail(s), pat, rep)

cleanseVersion(v) ==
  SplitJoin(SplitJoin(SplitJoin(SplitJoin(v, <<"/">>, <<"-">>), <<"\\">>, <<"-">>),
                      <<":">>, << >>),
            <<".", "*">>, << >>)

\* validateObj drops one trailing dot of info.version
StripDot(v) == IF Len(v) > 0 /\ v[Len(v)] = "." THEN Pop(v) ELSE v

\* the version key add and update file a valid document of info.version raw
\* under: '' and 'version' stand for the default version
NormalVersion(raw) ==
  LET v1 == StripDot(raw)
      v2 == IF v1 = << >> \/ v1 = <<"version">> THEN DefaultVersion ELSE v1
  IN cleanseVersion(v2)

\* info.version of the documents the URLs serve
RawVersions == {<<"a">>, <<"b">>, <<"b", ":">>}

(***************************************************************************)
(* Failure Ledger                                                          *)
(***************************************************************************)
\* the keys of failures[provider][service][version]; a missing field of the
\* candidate reads as the key 'undefined'
FailKey(provider, service, version) == <<provider, service, version>>

NoKey == FailKey("undefined", "undefined", <<"undefined">>)

fail(f, key, status, error) == Put(f, key, [status |-> status, error |-> error])

(***************************************************************************)
(* commands.add                                                            *)
(***************************************************************************)
\* what the URL serves and what the validator says
AddResult(kind, provider, version, endpoints, logo) ==
  [kind |-> kind, provider |-> provider, version |-> version, endpoints |-> endpoints,
   logo |-> logo]

AddOutcomes ==
  {AddResult(k, "p", <<"a">>, 1, FALSE) : k \in {"throw", "notok", "invalid"}}
  \cup {AddResult("ok", pr, <<"a">>, 0, FALSE) : pr \in Providers}
  \cup {AddResult("ok", c[1], c[2], 1, c[3]) : c \in Providers \X RawVersions \X BOOLEAN}

\* an add that does not look for the URL in the registry
UrlHeldNever(m, h, provider, u) == FALSE

\* the loops over metadata[provider].apis: some entry has source.url === u
UrlHeld(m, h, provider, u) ==
  \E t \in Triples(m) : t[1] = provider /\ EntryAt(m, h, t).url = u

\* the candidate add builds
NewCandidate(provider, service, version, id, gen) ==
  [provider |-> provider, driver |-> Undef, service |-> service, version |-> version,
   gp |-> gen, md |-> id, info |-> FALSE]

\* add(u, metadata) under options args; st holds the registry m, the heap h,
\* newCandidates nc, the failures f and the exit code x; r names what happened
add(st, u, args, out, token, gen, roots) ==
  IF out.kind \in {"throw", "notok"} THEN [st EXCEPT !.r = out.kind]
  ELSE IF out.kind = "invalid"
  THEN [st EXCEPT !.f = fail(st.f, NoKey, 0, "Validation failure"), !.x = 1,
                  !.r = "invalid"]
  ELSE
    LET provider == out.provider
        service == IF Truthy(args.service) THEN args.service ELSE ""
    IN IF Has(st.m, provider) /\ UrlHeld(st.m, st.h, provider, u)
       THEN [st EXCEPT !.r = "duplicate"]
       ELSE
         LET m1 == IF Has(st.m, provider) THEN st.m
                   ELSE Put(st.m, provider, NewProvider(FALSE, gen))
             p1 == Get(m1, provider)
             a1 == IF Has(p1.apis, service) THEN p1.apis ELSE Put(p1.apis, service, << >>)
             nodes == Put(m1, provider, [p1 EXCEPT !.apis = a1])
         IN IF out.endpoints = 0
            THEN [st EXCEPT !.m = nodes, !.x = 1, !.r = "empty"]
            ELSE
              LET version == NormalVersion(out.version)
                  id == FreshId(st.h)
                  md == [EmptyEntry EXCEPT
                           !.url = u, !.valid = "true", !.added = token,
                           !.updated = token, !.name = <<"openapi.yaml">>,
                           !.openapi = "3.0",
                           !.filename = FileNameOf(provider, service, version,
                                                   "openapi.yaml"),
                           !.cached = args.cached, !.hash = "h2"]
                  s1 == Put(Get(a1, service), version, id)
                  s2 == IF out.logo THEN Put(s1, PatchKey, 1) ELSE s1
                  m2 == Put(m1, provider, [p1 EXCEPT !.apis = Put(a1, service, s2)])
              IN [st EXCEPT
                    !.m = m2,
                    !.h = Collect([st.h EXCEPT ![id] = md], m2, roots \cup {id}),
                    !.nc = Append(st.nc, NewCandidate(provider, service, version, id, gen)),
                    !.r = "added"]

(***************************************************************************)
(* Registry Store: the registry file                                       *)
(***************************************************************************)
\* yamlStringify(metadata): the entries are written in place, a Tree is
\* written as the map it wraps; saveMetadata has deleted the data fields
yamlStringify(m, h) ==
  [i \in 1..Len(m) |->
     [k |-> m[i].k,
      v |-> [driver |-> m[i].v.driver, patch |-> m[i].v.patch,
             method |-> m[i].v.method,
             apis |-> [j \in 1..Len(m[i].v.apis) |->
                         [k |-> m[i].v.apis[j].k,
                          v |-> [n \in 1..Len(m[i].v.apis[j].v) |->
                                   LET ve == m[i].v.apis[j].v[n] IN
                                   [k |-> ve.k,
                                    v |-> IF ve.k = PatchKey THEN [payload |-> ve.v]
                                          ELSE h[ve.v]]]]]]]]

\* the positions of the version entries of a registry text, in document order
TextEntries(text) ==
  Concat([i \in 1..Len(text) |->
            Concat([j \in 1..Len(text[i].v.apis) |->
                      SelectSeq([n \in 1..Len(text[i].v.apis[j].v) |-> <<i, j, n>>],
                                LAMBDA x : text[i].v.apis[j].v[x[3]].k # PatchKey)])])

\* the identities not in use, smallest first
RECURSIVE FreeFrom(_, _)
FreeFrom(h, i) ==
  IF i > MaxObj THEN << >>
  ELSE (IF h[i] = Free THEN <<i>> ELSE << >>) \o FreeFrom(h, i + 1)

\* yamlParse(metaStr): plain objects of load gen; every entry is a new object
yamlParse(text, h, gen) ==
  LET at == TextEntries(text)
      ids == FreeFrom(h, 1)
      rank(x) == CHOOSE r \in 1..Len(at) : at[r] = x
  IN [m |-> [i \in 1..Len(text) |->
               [k |-> text[i].k,
                v |-> [driver |-> text[i].v.driver, patch |-> text[i].v.patch,
                       data |-> FALSE, tree |-> FALSE, gen |-> gen,
                       method |-> text[i].v.method,
                       apis |-> [j \in 1..Len(text[i].v.apis) |->
                                   [k |-> text[i].v.apis[j].k,
                                    v |-> [n \in 1..Len(text[i].v.apis[j].v) |->
                                             LET ve == text[i].v.apis[j].v[n] IN
                                             [k |-> ve.k,
                                              v |-> IF ve.k = PatchKey THEN ve.v.payload
                                                    ELSE ids[rank(<<i, j, n>>)]]]]]]]],
      h |-> [id \in ObjIds |->
               IF \E r \in 1..Len(at) : ids[r] = id
               THEN LET x == at[CHOOSE r \in 1..Len(at) : ids[r] = id]
                    IN text[x[1]].v.apis[x[2]].v[x[3]].v
               ELSE h[id]]]

(***************************************************************************)
(* main, up to the ingestion of the new leads                              *)
(***************************************************************************)
\* registries main can load: entry A (p, '', a, u1, preferred), optionally
\* B (p, '', b, u2) and C (q, s, a, u3), and the providers' drivers
MainSeeds ==
  {BuildRegistry(EmptyRegistry,
                 <<EntryItem("p", "", <<"a">>,
                             SeedEntry("p", "", <<"a">>, "true", 0, OldStamp, OldStamp, "u1"))>>
                 \o (IF c[1] THEN SlotItems(<<"p", "", <<"b">>>>, OldStamp, "u2") ELSE << >>)
                 \o (IF c[2] THEN SlotItems(<<"q", "s", <<"a">>>>, OldStamp, "u3") ELSE << >>)
                 \o <<DriverItem("p", c[3]), DriverItem("q", c[4])>>) :
     c \in BOOLEAN \X BOOLEAN \X {"url", "google"} \X {"google", "github"}}

MainFilters == {Undef, "none", "google"}

\* the process has started and has not called main: the registry file holds
\* one of the registries `seeds`
Started(seeds) ==
  /\ now = FirstNow
  /\ metadata = << >>
  /\ heap = EmptyRegistry.h
  /\ \E r \in seeds : registryYaml = yamlStringify(r.m, r.h)
  /\ apis = << >>
  /\ op = "init"
  /\ calls = 0
  /\ IdleRun

MainInit == Started(MainSeeds)

\* the entries main's lists still refer to
Roots == {candidates[i].md : i \in 1..Len(candidates)}
         \cup {newCandidates[i].md : i \in 1..Len(newCandidates)}

\* the entries newCandidates refers to
Kept == {newCandidates[i].md : i \in 1..Len(newCandidates)}

\* an entry of main that starts with no failures
EnterFresh(cmds, specs, filters, skips, runs) ==
  \E cmd \in cmds, spec \in specs, filter \in filters, skip \in skips :
    /\ pc = "idle" \/ (pc \in {"done", "aborted"} /\ calls < runs)
    /\ Len(TextEntries(registryYaml)) + Cardinality(Kept) <= MaxObj
    /\ command' = cmd
    /\ pathspec' = spec
    /\ argv' = [NoArgv EXCEPT !.driver = filter, !.skipDrivers = skip]
    /\ exitCode' = 99
    /\ LET r == yamlParse(registryYaml, Collect(heap, << >>, Kept), epoch)
       IN metadata' = r.m /\ heap' = r.h
    /\ epoch' = epoch + 1
    /\ candidates' = << >>
    /\ invoked' = [p \in Providers |-> 0]
    /\ idx' = 0
    /\ pc' = IF cmd = "add" THEN "addCommand"
             ELSE IF Truthy(filter) THEN "select" ELSE "gather"
    /\ op' = "loadMetadata"
    /\ calls' = calls + 1
    /\ failures' = << >>
    /\ UNCHANGED <<now, apis, drivers, leads, res, newCandidates, storeVars>>

\* main(command, pathspec, options) is entered, for the first time or after
\* an earlier call in this process has returned or failed: exit code 99,
\* options stored, registry loaded from the file
Enter(cmds, specs, filters, skips, runs) ==
  \E cmd \in cmds, spec \in specs, filter \in filters, skip \in skips :
    /\ pc = "idle" \/ (pc \in {"done", "aborted"} /\ calls < runs)
    /\ Len(TextEntries(registryYaml)) + Cardinality(Kept) <= MaxObj
    /\ command' = cmd
    /\ pathspec' = spec
    /\ argv' = [NoArgv EXCEPT !.driver = filter, !.skipDrivers = skip]
    /\ exitCode' = 99
    /\ LET r == yamlParse(registryYaml, Collect(heap, << >>, Kept), epoch)
       IN metadata' = r.m /\ heap' = r.h
    /\ epoch' = epoch + 1
    /\ candidates' = << >>
    /\ invoked' = [p \in Providers |-> 0]
    /\ idx' = 0
    /\ pc' = IF cmd = "add" THEN "addCommand"
             ELSE IF Truthy(filter) THEN "select" ELSE "gather"
    /\ op' = "loadMetadata"
    /\ calls' = calls + 1
    /\ UNCHANGED <<now, apis, drivers, leads, res, newCandidates, failures, storeVars>>

MainStart == Enter(Commands, PathSpecs, MainFilters, BOOLEAN, 1)

\* if (!argv.driver) { apis = gather(...); populateMetadata(apis, pathspec, argv) }
GatherStep ==
  /\ pc = "gather"
  /\ Cardinality(UsedIds(heap)) < MaxObj
  /\ apis' = gather(metadata, heap, pathspec)
  /\ LET r == populateMetadata(metadata, heap, apis', pathspec, argv.small, now, Roots,
                               epoch)
     IN metadata' = r.m /\ heap' = r.h
  /\ pc' = "select"
  /\ op' = "populateMetadata"
  /\ UNCHANGED <<now, calls, epoch, command, pathspec, argv, candidates, drivers, leads,
                 idx, invoked, res, newCandidates, failures, exitCode, storeVars>>

\* candidates = getCandidates(command, pathspec, argv); runDrivers returns at
\* once when the drivers are skipped or none is to be invoked
SelectStep ==
  /\ pc = "select"
  /\ LET r == getCandidates(metadata, heap, command, pathspec, argv.driver, now, apis,
                            drivers)
     IN /\ candidates' = r.result
        /\ drivers' = r.drivers
        /\ pc' = IF argv.skipDrivers \/ NextWanted(DriverPlan(r.drivers), argv.driver, 0) = 0
                 THEN "trim" ELSE "drivers"
  /\ idx' = 0
  /\ op' = "getCandidates"
  /\ UNCHANGED <<now, metadata, heap, apis, calls, epoch, command, pathspec, argv, leads,
                 invoked, res, newCandidates, failures, exitCode, storeVars>>

\* runDrivers: one invocation of a driver function; an exception leaves
\* runDrivers and main
RunDriver(funcs) ==
  /\ pc = "drivers"
  /\ LET plan == DriverPlan(drivers)
         k == NextWanted(plan, argv.driver, idx)
     IN \E out \in funcs[plan[k].driver, plan[k].provider] :
          /\ invoked' = [invoked EXCEPT ![plan[k].provider] = @ + 1]
          /\ leads' = PutAll(leads, out.items)
          /\ metadata' = IF out.data
                         THEN Put(metadata, plan[k].provider,
                                  [Get(metadata, plan[k].provider) EXCEPT !.data = TRUE])
                         ELSE metadata
          /\ res' = [kind |-> out.kind, ok |-> out.ok]
          /\ IF out.kind = "throw" THEN pc' = "aborted" /\ idx' = k
             ELSE IF NextWanted(plan, argv.driver, k) = 0 THEN pc' = "trim" /\ idx' = 0
             ELSE pc' = "drivers" /\ idx' = k
  /\ op' = "runDrivers"
  /\ UNCHANGED <<now, heap, apis, calls, epoch, command, pathspec, argv,
                 candidates, drivers, newCandidates, failures, exitCode, storeVars>>

\* driverFuncs as a table: the outcomes of each driver for each provider
DriverTable == [d \in DriverNames, p \in Providers |-> driverFuncs(d, p)]

DriverStep == RunDriver(DriverTable)

\* the loop over the candidates is entered unless there is none
AfterLeads(cands) == IF Len(cands) = 0 THEN "wrapUp" ELSE "process"

\* leads = trimLeads(candidates)
TrimStep ==
  /\ pc = "trim"
  /\ LET r == trimLeads(leads, heap, candidates)
     IN /\ leads' = r.leads
        /\ heap' = r.h
        /\ pc' = IF command = "update" /\ Len(r.leads) > 0 THEN "ingest"
                 ELSE AfterLeads(candidates)
        /\ res' = [kind |-> "trimmed",
                    folded |-> SelectSeq(leads, LAMBDA e : ~Has(r.leads, e.k))]
  /\ idx' = 0
  /\ op' = "trimLeads"
  /\ UNCHANGED <<now, metadata, apis, calls, epoch, command, pathspec, argv, candidates,
                 drivers, invoked, newCandidates, failures, exitCode, storeVars>>

\* the options main sets for one lead before it calls add
LeadArgv(args, lead) ==
  [args EXCEPT !.service = lead.service,
               !.cached = IF lead.file # NoFile THEN Relative(lead.file) ELSE @,
               !.providerKey = IF Truthy(lead.provider) THEN lead.provider ELSE @]

\* one turn of the loop over the remaining leads: commands.add(u, metadata)
IngestLead(outcomes) ==
  /\ pc = "ingest"
  /\ Cardinality(UsedIds(heap)) < MaxObj
  /\ LET u == leads[idx + 1].k
         lead == leads[idx + 1].v
     IN IF Truthy(lead.provider) /\ ~Has(metadata, lead.provider)
        THEN \* metadata[leads[u].provider].host of a missing provider
             /\ argv' = [argv EXCEPT !.service = lead.service,
                           !.cached = IF lead.file # NoFile THEN Relative(lead.file) ELSE @]
             /\ pc' = "aborted"
             /\ res' = [kind |-> "throw"]
             /\ UNCHANGED <<metadata, heap, newCandidates, failures, exitCode, idx>>
        ELSE \E out \in outcomes :
               LET r == add([m |-> metadata, h |-> heap, nc |-> newCandidates,
                             f |-> failures, x |-> exitCode, r |-> "none"],
                            u, LeadArgv(argv, lead), out, now, epoch, Roots)
               IN /\ argv' = LeadArgv(argv, lead)
                  /\ metadata' = r.m
                  /\ heap' = r.h
                  /\ newCandidates' = r.nc
                  /\ failures' = r.f
                  /\ exitCode' = r.x
                  /\ res' = [kind |-> r.r, url |-> u]
                  /\ idx' = IF idx + 1 = Len(leads) THEN 0 ELSE idx + 1
                  /\ pc' = IF idx + 1 = Len(leads) THEN AfterLeads(candidates)
                           ELSE "ingest"
  /\ op' = "add"
  /\ UNCHANGED <<now, apis, calls, epoch, command, pathspec, candidates, drivers, leads,
                 invoked, storeVars>>

IngestStep == IngestLead(AddOutcomes)

AcquireNext ==
  MainStart \/ GatherStep \/ SelectStep \/ DriverStep \/ TrimStep \/ IngestStep

\* main from its entry to the end of the ingestion of the new leads
AcquireSpec == MainInit /\ [][AcquireNext]_vars

(***************************************************************************)
(* Properties of the acquisition phase                                     *)
(***************************************************************************)
SelectedProviders == {candidates[i].provider : i \in 1..Len(candidates)}

\* runDrivers has returned to main
RunDriversReturned == pc \in {"trim", "ingest", "process", "wrapUp"}

\* the driver function of provider P is to be invoked in this run
DriverDue(P) ==
  /\ ~argv.skipDrivers
  /\ \E d \in DriverNames :
       /\ Has(drivers, d)
       /\ Has(Get(drivers, d), P)
       /\ (argv.driver = Undef \/ argv.driver = d)

\* C6 as stated: once runDrivers has returned, the driver function of every
\* provider with a selected version was invoked exactly once, and no driver
\* function was invoked for any other provider
DriverOncePerSelected ==
  RunDriversReturned =>
    \A P \in Providers : invoked[P] = IF P \in SelectedProviders THEN 1 ELSE 0

\* C6 amended: a driver function is invoked for a provider at most once in a
\* run, and only if the drivers are not skipped, the provider is in the
\* driver grouping and the driver filter is unset or names the provider's
\* driver; once runDrivers has returned, every such provider was invoked once
DriverOnceWhenDue ==
  \A P \in Providers :
    /\ invoked[P] <= 1
    /\ invoked[P] = 1 => DriverDue(P)
    /\ (RunDriversReturned /\ DriverDue(P)) => invoked[P] = 1

\* runDrivers returned after it invoked the drivers of two providers, one of
\* them with two selected versions
DriverOnceWitness ==
  /\ pc = "trim"
  /\ invoked["p"] = 1 /\ invoked["q"] = 1
  /\ Cardinality({i \in 1..Len(candidates) : candidates[i].provider = "p"}) = 2

CandidateUrls == {heap[candidates[i].md].url : i \in 1..Len(candidates)}

\* C7: trimLeads removes every lead whose url is the source.url of a
\* candidate, whatever provider the lead is attributed to, and leaves every
\* other lead in the map unchanged
TrimRemovesMatched ==
  [][op' = "trimLeads" =>
       /\ \A u \in CandidateUrls : ~Has(leads', u)
       /\ \A u \in Keys(leads) \ CandidateUrls :
            Has(leads', u) /\ Get(leads', u) = Get(leads, u)
       /\ Keys(leads') \subseteq Keys(leads)]_vars

\* a lead attributed to provider q was folded into a candidate of provider
\* p, and another lead remains
TrimRemovesWitness ==
  /\ op = "trimLeads"
  /\ Len(leads) = 1
  /\ \E i \in 1..Len(candidates) :
       /\ candidates[i].provider = "p"
       /\ \E n \in 1..Len(res.folded) :
            /\ res.folded[n].k = heap[candidates[i].md].url
            /\ res.folded[n].v.provider = "q"

\* C8: a folded lead sets cached only if it has a file (to the file's path
\* relative to the working directory) and preferred only if its preferred is a
\* boolean; otherwise, and for candidates no lead is folded into, cached and
\* preferred keep their values
FoldCopiesFileAndBoolean ==
  [][op' = "trimLeads" =>
       \A i \in 1..Len(candidates) :
         LET id == candidates[i].md
             u == heap[id].url
             folded == /\ Has(leads, u)
                       /\ \A j \in 1..(i - 1) : heap[candidates[j].md].url # u
         IN IF folded
            THEN /\ IF Get(leads, u).file # NoFile
                    THEN WorkDir \o heap'[id].cached = Get(leads, u).file
                    ELSE heap'[id].cached = heap[id].cached
                 /\ IF Get(leads, u).preferred \in {"true", "false"}
                    THEN heap'[id].preferred = Get(leads, u).preferred
                    ELSE heap'[id].preferred = heap[id].preferred
            ELSE /\ heap'[id].cached = heap[id].cached
                 /\ heap'[id].preferred = heap[id].preferred]_vars

\* a lead with a truthy preferred that is no boolean was folded into a
\* preferred entry, and a lead with a file into another entry
FoldCopiesWitness ==
  /\ op = "trimLeads"
  /\ \E i, j \in 1..Len(candidates) : \E n, k \in 1..Len(res.folded) :
       /\ res.folded[n].k = heap[candidates[i].md].url
       /\ res.folded[n].v.preferred = "yes"
       /\ heap[candidates[i].md].preferred = "true"
       /\ heap[candidates[i].md].cached = NoFile
       /\ res.folded[k].k = heap[candidates[j].md].url
       /\ res.folded[k].v.file # NoFile
       /\ heap[candidates[j].md].cached # NoFile
       /\ heap[candidates[j].md].preferred = Undef

\* C9 as stated: no lead that remains after trimLeads has the source.url of an
\* entry of the registry, and add never registers an entry for a source URL
\* the registry holds
LeadsGenuinelyNew ==
  [][/\ op' = "trimLeads" =>
          \A u \in Keys(leads') : \A t \in Triples(metadata') :
            EntryAt(metadata', heap', t).url # u
     /\ Len(newCandidates') > Len(newCandidates) =>
          \A t \in Triples(metadata) :
            EntryAt(metadata, heap, t).url # heap'[Last(newCandidates').md].url]_vars

\* C9 amended: no lead that remains after trimLeads has the source.url of a
\* candidate, and add never registers an entry under a provider that holds an
\* entry with the same source URL
LeadsNewToCandidates ==
  [][/\ op' = "trimLeads" =>
          \A u \in Keys(leads') : \A i \in 1..Len(candidates') :
            heap'[candidates'[i].md].url # u
     /\ Len(newCandidates') > Len(newCandidates) =>
          \A t \in Triples(metadata) :
            t[1] = Last(newCandidates').provider =>
              EntryAt(metadata, heap, t).url # heap'[Last(newCandidates').md].url]_vars

\* a remaining lead was ingested and its entry registered
LeadsNewWitness ==
  /\ op = "add"
  /\ res.kind = "added"
  /\ heap[Last(newCandidates).md].url = res.url
  /\ HasEntry(metadata, Last(newCandidates).provider, Last(newCandidates).service,
              Last(newCandidates).version)

(***************************************************************************)
(* commands.update                                                         *)
(***************************************************************************)
\* s.replace(pat, rep) with a string pattern: the first occurrence only
RECURSIVE ReplaceFirst(_, _, _)
ReplaceFirst(s, pat, rep) ==
  IF Len(s) < Len(pat) THEN s
  ELSE IF SubSeq(s, 1, Len(pat)) = pat
  THEN rep \o SubSeq(s, Len(pat) + 1, Len(s))
  ELSE <<Head(s)>> \o ReplaceFirst(Tail(s), pat, rep)

\* the version key update files a valid document of info.version raw under
UpdateVersion(raw) ==
  LET v1 == StripDot(raw)
  IN cleanseVersion(IF v1 = << >> THEN DefaultVersion ELSE v1)

\* what the source URL serves: an exception, a status that is not OK, a
\* document that fails validation, or a valid document with its version and
\* the hash of the definition written for it; fileOk tells whether the
\* definition file can be read and written back
UpdateResult(kind, status, version, hash, fileOk) ==
  [kind |-> kind, status |-> status, version |-> version, hash |-> hash,
   fileOk |-> fileOk]

NotFound == 404

UpdateOutcomes ==
  {UpdateResult("throw", 0, <<"a">>, "h1", TRUE),
   UpdateResult("invalid", 0, <<"a">>, "h1", TRUE)}
  \cup {UpdateResult("notok", NotFound, <<"a">>, "h1", ok) : ok \in BOOLEAN}
  \cup {UpdateResult("ok", 0, c[1], c[2], TRUE) : c \in RawVersions \X Hashes}

\* candidate.parent[W] = candidate.parent[V]; delete candidate.parent[V]
Rename(parent, V, W) == Del(Put(parent, W, Get(parent, V)), V)

\* the status code is deleted and the flag is left as it was
InvalidateKeepFlag(md) == [md EXCEPT !.statusCode = 0]

\* the response was OK (delete md.statusCode) and validateObj found the
\* document invalid (md.valid = result.valid)
Invalidate(md) == [md EXCEPT !.statusCode = 0, !.valid = "false"]

\* the provider record after update and retrieve have read its keys method
\* and data: a Tree creates the keys it does not have
TreeRead(provider) ==
  IF provider.tree THEN [provider EXCEPT !.method = TRUE, !.data = TRUE] ELSE provider

\* argv.provider.data.find(...) in retrieve: the data and the length a Tree
\* has created are truthy, and the find it creates is not a function
FindThrows(provider) == provider.tree /\ ~provider.data

\* update(candidate) for a candidate with a source URL; st0 holds the registry
\* m, the heap h, the failures f and the exit code x; r names what happened
update(st0, c, out, token) ==
  LET md == st0.h[c.md]
      key == FailKey(c.provider, c.service, c.version)
      st == IF c.driver = "external" THEN st0
            ELSE [st0 EXCEPT !.m = Put(@, c.provider, TreeRead(Get(@, c.provider)))]
  IN
  IF c.driver = "external" THEN [st EXCEPT !.r = "external"]
  ELSE IF out.kind = "throw" \/ FindThrows(Get(st0.m, c.provider))
  THEN [st EXCEPT !.f = fail(st.f, key, 0, "error"), !.x = 1, !.r = "throw"]
  ELSE IF out.kind = "notok"
  THEN LET md1 == [md EXCEPT !.statusCode = out.status]
           md2 == IF md.preferred = "true" /\ out.fileOk
                  THEN [md1 EXCEPT !.preferred = "false"] ELSE md1
       IN [st EXCEPT !.h = [@ EXCEPT ![c.md] = md2],
                     !.f = fail(st.f, key, out.status, ""), !.x = 1, !.r = "notok"]
  ELSE IF out.kind = "invalid"
  THEN [st EXCEPT !.h = [@ EXCEPT ![c.md] = Invalidate(md)],
                  !.f = fail(st.f, key, 0, "Validation failure"), !.x = 1,
                  !.r = "invalid"]
  ELSE
    LET newVersion == UpdateVersion(out.version)
        provider == Get(st.m, c.provider)
        parent == Get(provider.apis, c.service)
        parent1 == IF newVersion # c.version THEN Rename(parent, c.version, newVersion)
                   ELSE parent
        md1 == [md EXCEPT !.statusCode = 0, !.valid = "true"]
        md2 == IF newVersion # c.version
               THEN [md1 EXCEPT !.filename =
                       ReplaceFirst(@, <<"/">> \o c.version \o <<"/">>,
                                    <<"/">> \o newVersion \o <<"/">>),
                                !.name = <<"openapi.yaml">>]
               ELSE md1
        md3 == IF md2.hash # out.hash
               THEN [md2 EXCEPT !.hash = out.hash, !.updated = token] ELSE md2
    IN [st EXCEPT
          !.m = Put(st.m, c.provider,
                    [provider EXCEPT !.apis = Put(provider.apis, c.service, parent1)]),
          !.h = [@ EXCEPT ![c.md] = md3],
          !.r = "ok"]

(***************************************************************************)
(* main, to the end of the loop over the candidates                        *)
(***************************************************************************)
\* the drivers of a run whose leads are new documents only
NewLeads(driver, provider) ==
  IF driver = "google"
  THEN {DriverResult("throw", << >>, FALSE, FALSE),
        DriverResult("true", <<[k |-> "u9", v |-> Lead("s", Undef, Undef, NoFile)]>>,
                     TRUE, FALSE)}
  ELSE IF driver = "github"
  THEN {DriverResult("false", << >>, FALSE, FALSE),
        DriverResult("true",
                     <<[k |-> "u9",
                        v |-> Lead("s", provider, Undef,
                                   Resolve(<<"metadata", "/", provider, ".cache", "/",
                                             "s", ".yaml">>))]>>,
                     TRUE, FALSE)}
  ELSE {DriverResult("true", << >>, TRUE, FALSE)}

\* the new documents are valid, or cannot be fetched
\* the drivers of the whole run as a table
NewLeadTable == [d \in DriverNames, p \in Providers |-> NewLeads(d, p)]

NewAdds ==
  {AddResult("notok", "p", <<"a">>, 1, FALSE)}
  \cup {AddResult("ok", pr, <<"a">>, 1, FALSE) : pr \in Providers}

\* one turn of the loop over the candidates: commands[command](candidate, metadata)
ProcessStep ==
  /\ pc = "process"
  /\ LET c == candidates[idx + 1] IN
     IF command # "update"
     THEN \* populate: nothing to do
          /\ res' = [kind |-> "nop"]
          /\ pc' = IF idx + 1 = Len(candidates) THEN "wrapUp" ELSE "process"
          /\ idx' = IF idx + 1 = Len(candidates) THEN 0 ELSE idx + 1
          /\ UNCHANGED <<metadata, heap, failures, exitCode>>
     ELSE IF heap[c.md].url = Undef
     THEN \* throw new Error('No url') leaves main
          /\ res' = [kind |-> "throw"]
          /\ pc' = "aborted"
          /\ UNCHANGED <<metadata, heap, failures, exitCode, idx>>
     ELSE \E out \in UpdateOutcomes :
            LET r == update([m |-> metadata, h |-> heap, f |-> failures, x |-> exitCode,
                             r |-> "none"], c, out, now)
            IN /\ metadata' = r.m
               /\ heap' = Collect(r.h, r.m, Roots)
               /\ failures' = r.f
               /\ exitCode' = r.x
               /\ res' = [kind |-> r.r, newVersion |-> UpdateVersion(out.version),
                          status |-> out.status, fileOk |-> out.fileOk,
                          was |-> heap[c.md]]
               /\ pc' = IF idx + 1 = Len(candidates) THEN "wrapUp" ELSE "process"
               /\ idx' = IF idx + 1 = Len(candidates) THEN 0 ELSE idx + 1
  /\ op' = command
  /\ UNCHANGED <<now, apis, calls, epoch, command, pathspec, argv, candidates, drivers,
                 leads, invoked, newCandidates, storeVars>>

(***************************************************************************)
(* wrapUp.update                                                           *)
(***************************************************************************)
\* updatePreferredFlag(candidate, flag): the flag is stored in the entry after
\* the definition file was rewritten; the entries of `bad` have a definition
\* file that cannot be read or written
updatePreferredFlag(h, id, flag, bad) ==
  IF id \in bad THEN h ELSE [h EXCEPT ![id] = [@ EXCEPT !.preferred = flag]]

\* services[key].versions[candidate.version] = candidate
RECURSIVE GroupVersions(_, _)
GroupVersions(groups, cands) ==
  IF Len(cands) = 0 THEN groups
  ELSE LET c == Head(cands)
           key == <<c.provider, c.service>>
           versions == IF Has(groups, key) THEN Get(groups, key) ELSE << >>
       IN GroupVersions(Put(groups, key, Put(versions, c.version, c.md)), Tail(cands))

NoVersion == << >>

\* the version whose added is the latest, the last one of several; '' when
\* no candidate of the service has a date in added
PreferredVersion(h, versions) ==
  LET dated == {n \in 1..Len(versions) : h[versions[n].v].added # 0}
      latest == {n \in dated : \A k \in dated : h[versions[k].v].added <= h[versions[n].v].added}
  IN IF dated = {} THEN NoVersion
     ELSE versions[CHOOSE n \in latest : \A k \in latest : k <= n].k

\* the loop over the versions of a service with several versions, or of one
\* whose only version has no date (versions[''] then is a second key)
RECURSIVE SetFlags(_, _, _, _)
SetFlags(h, versions, preferredVersion, bad) ==
  IF Len(versions) = 0 THEN h
  ELSE LET id == Head(versions).v
           newPreferred == IF Head(versions).k = preferredVersion THEN "true" ELSE "false"
           h1 == IF h[id].preferred # newPreferred
                 THEN updatePreferredFlag(h, id, newPreferred, bad) ELSE h
       IN SetFlags(h1, Tail(versions), preferredVersion, bad)

\* the body of the loop over the services
WrapService(h, versions, bad) ==
  LET preferredVersion == PreferredVersion(h, versions) IN
  IF Len(versions) = 1 /\ preferredVersion # NoVersion
  THEN updatePreferredFlag(h, versions[1].v, Undef, bad)
  ELSE SetFlags(h, versions, preferredVersion, bad)

RECURSIVE WrapServices(_, _, _)
WrapServices(h, groups, bad) ==
  IF Len(groups) = 0 THEN h
  ELSE WrapServices(WrapService(h, Head(groups).v, bad), Tail(groups), bad)

\* wrapUp.update(candidates)
wrapUpUpdate(h, cands, bad) == WrapServices(h, GroupVersions(<< >>, cands), bad)

(***************************************************************************)
(* saveMetadata                                                            *)
(***************************************************************************)
ExitSentinel == 99
ExitReport == 3

\* whether yamlStringify returns a string, whether JSON.stringify does, and
\* whether the failure report can be written
SaveOutcomes ==
  {[yaml |-> TRUE, json |-> TRUE, report |-> TRUE],
   [yaml |-> TRUE, json |-> TRUE, report |-> FALSE],
   [yaml |-> FALSE, json |-> TRUE, report |-> TRUE],
   [yaml |-> FALSE, json |-> FALSE, report |-> TRUE]}

\* a save with no second serialiser
MetaStrYamlOnly(out) == IF out.yaml THEN "yaml" ELSE "none"

\* metaStr: the string of yamlStringify, else that of JSON.stringify, else
\* undefined
MetaStr(out) == IF out.yaml THEN "yaml" ELSE IF out.json THEN "json" ELSE "none"

\* the file that is written: registry.yaml if (metaStr), else temp.js
Written(metaStr) == IF metaStr # "none" THEN "registry.yaml" ELSE "temp.js"

\* a store that saves every time
ConsistentNever(flag) == FALSE

\* if (metadataConsistent) return true
Consistent(flag) == flag

\* every exit code is reset
ResetExitAlways(x, cmd) == 0

\* the exit code 1 is reset for update, the exit code 99 for every command
ResetExit(x, cmd) ==
  LET x1 == IF x = 1 /\ cmd = "update" THEN 0 ELSE x
  IN IF x1 = ExitSentinel THEN 0 ELSE x1

\* a save that does not remember that it succeeded
saveMetadataUnflagged(st, cmd, f, out) ==
  LET x2 == ResetExit(st.x, cmd)
      m1 == [i \in 1..Len(st.m) |-> [st.m[i] EXCEPT !.v.data = FALSE]]
  IN [st EXCEPT
        !.m = m1,
        !.text = IF Written(MetaStr(out)) = "registry.yaml"
                 THEN yamlStringify(m1, st.h) ELSE @,
        !.rep = IF out.report THEN Put(@, cmd, f) ELSE @,
        !.x = IF out.report THEN x2 ELSE ExitReport,
        !.result = MetaStr(out) # "none",
        !.wrote = Written(MetaStr(out)) = "registry.yaml",
        !.form = MetaStr(out),
        !.file = Written(MetaStr(out)),
        !.reported = out.report]

\* saveMetadata(command); st holds the registry m, the heap h, the exit code x,
\* the registry file text, the failure reports rep and the flag
saveMetadata(st, cmd, f, out) ==
  LET x2 == ResetExit(st.x, cmd)
  IN IF Consistent(st.flag)
     THEN [st EXCEPT !.x = x2, !.result = TRUE, !.wrote = FALSE, !.reported = FALSE]
     ELSE LET m1 == [i \in 1..Len(st.m) |-> [st.m[i] EXCEPT !.v.data = FALSE]]
          IN [st EXCEPT
                !.m = m1,
                !.text = IF Written(MetaStr(out)) = "registry.yaml"
                         THEN yamlStringify(m1, st.h) ELSE @,
                !.rep = IF out.report THEN Put(@, cmd, f) ELSE @,
                !.x = IF out.report THEN x2 ELSE ExitReport,
                !.flag = MetaStr(out) # "none",
                !.result = MetaStr(out) # "none",
                !.wrote = Written(MetaStr(out)) = "registry.yaml",
                !.form = MetaStr(out),
                !.file = Written(MetaStr(out)),
                !.reported = out.report]

(***************************************************************************)
(* main, from its entry to its return                                      *)
(***************************************************************************)
\* the URLs given to the add command
AddUrls == {<<"u1">>, <<"u9">>}

\* main('add', url, options) is entered
AddStart == Enter({"add"}, AddUrls, {Undef}, {FALSE}, 1)

\* commands.add(pathspec, metadata) of the add command
AddCommandStep ==
  /\ pc = "addCommand"
  /\ Cardinality(UsedIds(heap)) < MaxObj
  /\ \E out \in AddOutcomes :
       LET r == add([m |-> metadata, h |-> heap, nc |-> newCandidates, f |-> failures,
                     x |-> exitCode, r |-> "none"],
                    pathspec[1], argv, out, now, epoch, Roots)
       IN /\ metadata' = r.m
          /\ heap' = r.h
          /\ newCandidates' = r.nc
          /\ failures' = r.f
          /\ exitCode' = r.x
          /\ res' = [kind |-> r.r, url |-> pathspec[1]]
  /\ pc' = "save"
  /\ op' = "add"
  /\ UNCHANGED <<now, apis, calls, epoch, command, pathspec, argv, candidates, drivers,
                 leads, idx, invoked, storeVars>>

\* if (wrapUp[command]) { wrapUp(newCandidates) if there are any; wrapUp(candidates) }
WrapUp(bads) ==
  /\ pc = "wrapUp"
  /\ IF command = "update"
     THEN \E bad \in bads :
            heap' = wrapUpUpdate(IF Len(newCandidates) > 0
                                 THEN wrapUpUpdate(heap, newCandidates, bad) ELSE heap,
                                 candidates, bad)
     ELSE heap' = heap
  /\ pc' = "save"
  /\ op' = "wrapUp"
  /\ UNCHANGED <<now, metadata, apis, calls, epoch, command, pathspec, argv, candidates,
                 drivers, leads, idx, invoked, res, newCandidates, failures, exitCode,
                 storeVars>>

\* any of the definition files of the candidates may be unreadable
WrapUpStep ==
  WrapUp(SUBSET ({candidates[n].md : n \in 1..Len(candidates)}
                   \cup {newCandidates[n].md : n \in 1..Len(newCandidates)}))

\* ng.saveMetadata(command), and main returns
SaveStep ==
  /\ pc = "save"
  /\ \E out \in SaveOutcomes :
       LET r == saveMetadata([m |-> metadata, h |-> heap, x |-> exitCode,
                              text |-> registryYaml, rep |-> report,
                              flag |-> metadataConsistent, result |-> FALSE,
                              wrote |-> FALSE, reported |-> FALSE,
                              form |-> "none", file |-> "none"],
                             command, failures, out)
       IN /\ metadata' = r.m
          /\ exitCode' = r.x
          /\ registryYaml' = r.text
          /\ report' = r.rep
          /\ metadataConsistent' = r.flag
          /\ res' = [kind |-> "save", result |-> r.result, wrote |-> r.wrote,
                     reported |-> r.reported, form |-> r.form, file |-> r.file,
                     yaml |-> out.yaml, json |-> out.json]
  /\ pc' = "done"
  /\ op' = "saveMetadata"
  /\ UNCHANGED <<now, heap, apis, calls, epoch, command, pathspec, argv, candidates,
                 drivers, leads, idx, invoked, newCandidates, failures>>

Next ==
  \/ MainStart
  \/ AddStart
  \/ AddCommandStep
  \/ GatherStep
  \/ SelectStep
  \/ RunDriver(NewLeadTable)
  \/ TrimStep
  \/ IngestLead(NewAdds)
  \/ ProcessStep
  \/ WrapUpStep
  \/ SaveStep

\* one call of main, from its entry to its return
Spec == MainInit /\ [][Next]_vars

(***************************************************************************)
(* A process that calls main several times                                 *)
(***************************************************************************)
MaxRuns == 2

\* main is entered for update or populate of provider p without drivers, or
\* for add; the variables of the module (failures, leads, newCandidates,
\* metadataConsistent) live on from one call to the next
ProcessNext ==
  \/ Enter(Commands, {JoinPath(<<defaultPathSpec, ProviderPath("p")>>)}, {"none"}, {TRUE},
           MaxRuns)
  \/ Enter({"add"}, {<<"u9">>}, {Undef}, {FALSE}, MaxRuns)
  \/ AddCommandStep
  \/ SelectStep
  \/ TrimStep
  \/ ProcessStep
  \/ WrapUpStep
  \/ SaveStep

\* the process starts with a registry file that holds one entry
ProcessInit == MainInit /\ Len(TextEntries(registryYaml)) = 1

ProcessSpec == ProcessInit /\ [][ProcessNext]_vars

(***************************************************************************)
(* An update run over entries with and without a source URL                *)
(***************************************************************************)
\* provider p with entries at the keys a and b; an entry that populateMetadata
\* made for a document without x-origin has no source URL
LoopSeeds ==
  {BuildRegistry(EmptyRegistry,
                 <<EntryItem("p", "", <<"a">>,
                             SeedEntry("p", "", <<"a">>, Undef, 0, OldStamp, OldStamp, c[1])),
                   EntryItem("p", "", <<"b">>,
                             SeedEntry("p", "", <<"b">>, Undef, 0, OldStamp, OldStamp, c[2])),
                   DriverItem("p", "url")>>) :
     c \in {Undef, "u1"} \X {Undef, "u2"}}

LoopNext ==
  \/ Enter({"update"}, {JoinPath(<<defaultPathSpec, ProviderPath("p")>>)}, {"none"}, {TRUE}, 1)
  \/ SelectStep
  \/ TrimStep
  \/ ProcessStep
  \/ WrapUpStep
  \/ SaveStep

LoopInit == Started(LoopSeeds)

LoopSpec == LoopInit /\ [][LoopNext]_vars

(***************************************************************************)
(* Properties of update                                                    *)
(***************************************************************************)
\* the service object the candidate of this turn is bound to (candidate.parent)
ParentOf(m, c) == Get(Get(m, c.provider).apis, c.service)

\* C10 as stated: when update succeeds for a candidate bound to version key
\* V and the valid document reports the sanitized version W # V, then the
\* candidate's service has no key V, has key W, and the value at W is the
\* entry the candidate is bound to
RenameMovesEntry ==
  [][(pc = "process" /\ op' = "update" /\ res'.kind = "ok"
        /\ res'.newVersion # candidates[idx + 1].version) =>
       LET c == candidates[idx + 1] IN
       /\ ~Has(ParentOf(metadata', c), c.version)
       /\ Has(ParentOf(metadata', c), res'.newVersion)
       /\ Get(ParentOf(metadata', c), res'.newVersion) = c.md]_vars

(***************************************************************************)
(* Properties of the end of a run                                          *)
(***************************************************************************)
\* the candidate of the last turn of the loop over the candidates
LastCandidate == candidates[Len(candidates)]

\* the last candidate of an update run had preferred = true and its re-fetch
\* returned 404; the loop and wrapUp are over and saveMetadata is next
LastWas404Preferred ==
  /\ pc = "save"
  /\ command = "update"
  /\ Len(candidates) > 0
  /\ res.kind = "notok"
  /\ res.status = NotFound
  /\ res.was.preferred = "true"

\* C11 as stated: in an update run a selected candidate whose entry had
\* preferred = true and whose re-fetch returned 404 has preferred = false when
\* the registry is saved, and the failures hold a record with status 404 for
\* its provider, service and version
PreferredClearedOn404 ==
  LastWas404Preferred =>
    LET c == LastCandidate
        key == FailKey(c.provider, c.service, c.version)
    IN /\ heap[c.md].preferred = "false"
       /\ Has(failures, key)
       /\ Get(failures, key).status = NotFound

(***************************************************************************)
(* Properties of saveMetadata                                              *)
(***************************************************************************)
\* the text saveMetadata would write for the registry in memory
Persisted(m, h) ==
  yamlStringify([i \in 1..Len(m) |-> [m[i] EXCEPT !.v.data = FALSE]], h)

\* saveMetadata is called and returns
Saving == pc = "save" /\ pc' = "done"

\* the call of saveMetadata wrote no file and returned true
SavedNothing ==
  /\ res'.result
  /\ ~res'.wrote
  /\ ~res'.reported
  /\ registryYaml' = registryYaml
  /\ report' = report

SaveOnce ==
  [][/\ (Saving /\ res'.result) => metadataConsistent'
     /\ metadataConsistent => metadataConsistent'
     /\ (Saving /\ metadataConsistent) => SavedNothing]_vars

\* the second run of the process has changed the registry in memory, and
\* its saveMetadata returned true without writing any file
SecondSaveSkipped ==
  /\ pc = "done"
  /\ calls = 2
  /\ res.kind = "save"
  /\ res.result
  /\ ~res.wrote
  /\ ~res.reported
  /\ Persisted(metadata, heap) # registryYaml

(***************************************************************************)
(* Properties of the failures                                              *)
(***************************************************************************)
\* main has just been entered
Entered == op = "loadMetadata" /\ pc \in {"gather", "select", "addCommand"}

\* C14 as stated: at the start of every call of main there are no failures
LedgerEmptyAtEntry == Entered => failures = << >>

\* C14, amended: there are no failures when main is entered for the first
\* time in the process, no failure is removed afterwards, also not by a later
\* call of main, and a failure report that is written holds all of them
LedgerKeptForProcess ==
  [][/\ (pc = "idle" /\ pc' # "idle") => failures' = << >>
     /\ \A i \in 1..Len(failures) : Has(failures', failures[i].k)
     /\ (Saving /\ res'.reported) =>
          (Has(report', command) /\ Get(report', command) = failures)]_vars

\* the second run of the process is a populate run, which records no failure,
\* and the report it wrote holds a failure of the first run
ReportHoldsEarlierFailure ==
  /\ pc = "done"
  /\ calls = 2
  /\ command = "populate"
  /\ res.kind = "save"
  /\ res.reported
  /\ Has(report, "populate")
  /\ Get(report, "populate") # << >>

(***************************************************************************)
(* Properties of the exit code                                             *)
(***************************************************************************)
\* saveMetadata has returned
Saved == pc = "done" /\ res.kind = "save"

ThisCandidate == candidates[idx + 1]

\* C16 as stated: when the command throws or fails for a candidate, the
\* failures hold a record for that candidate afterwards and main goes on to
\* the next candidate or, after the last one, to wrapUp and saveMetadata
CandidateErrorsContained ==
  [][(pc = "process" /\ res'.kind \in {"throw", "notok", "invalid"}) =>
       /\ Has(failures', FailKey(ThisCandidate.provider, ThisCandidate.service,
                                 ThisCandidate.version))
       /\ pc' \in {"process", "wrapUp"}]_vars

(***************************************************************************)
(* Properties of runDrivers within main                                    *)
(***************************************************************************)
\* C17 as stated: when a driver function returns false or throws, the run is
\* not aborted: runDrivers goes on to the next driver due or returns, and
\* main goes on to trimLeads
DriverFailureTolerated ==
  [][(pc = "drivers" /\ res'.kind \in {"false", "throw"}) =>
       pc' \in {"drivers", "trim"}]_vars

(***************************************************************************)
(* Properties of update for an invalid document                            *)
(***************************************************************************)
\* the candidate of the turn of the loop that has just ended
DoneCandidate == IF idx = 0 THEN LastCandidate ELSE candidates[idx]

\* C18: when update retrieves a document that fails validation, the entry's
\* valid flag is false afterwards, the failures hold a record for the
\* candidate, the entry's hash, updated and filename are as before, and the
\* version keys of the candidate's service are as before
InvalidLeavesEntry ==
  [][(pc = "process" /\ res'.kind = "invalid") =>
       LET c == ThisCandidate IN
       /\ heap'[c.md].valid = "false"
       /\ Has(failures', FailKey(c.provider, c.service, c.version))
       /\ heap'[c.md].hash = heap[c.md].hash
       /\ heap'[c.md].updated = heap[c.md].updated
       /\ heap'[c.md].filename = heap[c.md].filename
       /\ metadata' = metadata]_vars

\* update has found the document of a candidate invalid whose entry was valid
InvalidWitness ==
  /\ pc \in {"process", "wrapUp"}
  /\ op = "update"
  /\ res.kind = "invalid"
  /\ res.was.valid = "true"
  /\ heap[DoneCandidate.md].valid = "false"
  /\ heap[DoneCandidate.md].hash = res.was.hash

(***************************************************************************)
(* Reconciling documents into an empty registry                            *)
(***************************************************************************)
\* a document found at APIs/<p>/[<s>/]<dir>/openapi.yaml whose info.version
\* is v
ScenarioDoc(p, s, dir, v, pref) ==
  [filename |-> FileNameOf(p, s, dir, "openapi.yaml"), provider |-> p, service |-> s,
   openapi |-> "3.0", preferred |-> pref, url |-> Undef, hash |-> "h1", patch |-> 0,
   parentPatch |-> 0, version |-> v]

\* documents in a directory named after their version or named otherwise
ScenarioDocs ==
  {ScenarioDoc(c[1], c[2], c[3], c[4], c[5]) :
     c \in {"example.com", "p"} \X Services \X {<<"v1">>, DefaultVersion}
          \X {<<"v1">>, DefaultVersion} \X {Undef, "true"}}

ScenarioInit ==
  /\ now = FirstNow
  /\ metadata = << >>
  /\ heap = EmptyRegistry.h
  /\ apis = << >>
  /\ op = "init"
  /\ calls = 0
  /\ registryYaml = << >>
  /\ IdleRun

\* populateMetadata(apis, pathspec, argv) for one discovered document
Discover ==
  \E d \in ScenarioDocs :
    /\ calls < MaxCalls
    /\ Cardinality(UsedIds(heap)) < MaxObj
    /\ apis' = <<[k |-> d.filename, v |-> d]>>
    /\ LET r == populateMetadata(metadata, heap, apis', defaultPathSpec, FALSE, now, {},
                                 epoch)
       IN metadata' = r.m /\ heap' = r.h
    /\ op' = "populateMetadata"
    /\ calls' = calls + 1
    /\ UNCHANGED <<now, runVars>>

ScenarioSpec == ScenarioInit /\ [][Discover]_vars

\* C19 as stated: a reconciled document has an entry under its provider, its
\* service and its info.version, with added set and its path as filename
FiledUnderInfoVersion ==
  op = "populateMetadata" =>
    LET d == apis[1].v IN
    /\ HasEntry(metadata, d.provider, d.service, d.version)
    /\ EntryAt(metadata, heap, <<d.provider, d.service, d.version>>).added # 0
    /\ EntryAt(metadata, heap, <<d.provider, d.service, d.version>>).filename = d.filename

\* C19, amended: a reconciled document has an entry under its provider, its
\* service and the name of the directory that holds its file, with added set
\* and its path as filename; every version key of the registry is the
\* directory of its entry's file, whatever info.version says
FiledUnderDirectory ==
  /\ op = "populateMetadata" =>
       LET d == apis[1].v
           t == DocTriple(d)
       IN /\ HasEntry(metadata, t[1], t[2], t[3])
          /\ EntryAt(metadata, heap, t).added # 0
          /\ EntryAt(metadata, heap, t).filename = d.filename
  /\ \A t \in Triples(metadata) :
       Last(Pop(Split(EntryAt(metadata, heap, t).filename))) = t[3]

\* the document APIs/example.com/v1/openapi.yaml with info.version 1.0.0 and
\* no service name has been reconciled into the empty registry: the entry is
\* at the key v1, and there is no key 1.0.0
ScenarioWitness ==
  /\ op = "populateMetadata"
  /\ calls = 1
  /\ apis[1].v = ScenarioDoc("example.com", "", <<"v1">>, DefaultVersion, Undef)
  /\ HasEntry(metadata, "example.com", "", <<"v1">>)
  /\ EntryAt(metadata, heap, <<"example.com", "", <<"v1">>>>).added = now
  /\ EntryAt(metadata, heap, <<"example.com", "", <<"v1">>>>).filename
       = <<"APIs", "/", "example.com", "/", "v1", "/", "openapi.yaml">>
  /\ ~HasEntry(metadata, "example.com", "", DefaultVersion)

(***************************************************************************)
(* populateMetadata called again with the same documents                   *)
(***************************************************************************)
\* a call of populateMetadata; res tells whether the call before it, in the
\* same process, was given the same documents
Repeat ==
  \E a \in ApiMaps(ReconcileDocs, MaxDocs), spec \in PathSpecs, small \in BOOLEAN :
    /\ Len(a) > 0 => (spec = defaultPathSpec /\ ~small)
    /\ calls < MaxCalls
    /\ Cardinality(UsedIds(heap)) + Len(a) <= MaxObj
    /\ LET r == populateMetadata(metadata, heap, a, spec, small, now, {}, epoch)
       IN metadata' = r.m /\ heap' = r.h
    /\ apis' = a
    /\ res' = [kind |-> "populate", same |-> (op = "populateMetadata" /\ apis = a)]
    /\ op' = "populateMetadata"
    /\ calls' = calls + 1
    /\ UNCHANGED <<now, epoch, command, pathspec, argv, candidates, drivers, leads, pc,
                   idx, invoked, newCandidates, failures, exitCode, storeVars>>

RepeatSpec == ReconcileInit /\ [][Repeat]_vars

\* the registry as it would be written, with the run and updated markers of
\* every entry blanked
Unmarked(m, h) ==
  yamlStringify(m, [i \in ObjIds |->
                      IF h[i] = Free THEN h[i] ELSE [h[i] EXCEPT !.run = 0, !.updated = 0]])

\* C20: a populateMetadata call that follows a call with the same documents
\* leaves the registry as that call left it, the run and updated markers
\* aside: the same provider, service and version keys in the same order, and
\* the same fields, added included, in every entry
PopulateTwiceSame ==
  [][(res'.kind = "populate" /\ res'.same) =>
       Unmarked(metadata', heap') = Unmarked(metadata, heap)]_vars

\* populateMetadata has been called twice in a row with the same document,
\* and the entry the first call created for it carries the stamp of that call
PopulateTwiceWitness ==
  /\ res.kind = "populate"
  /\ res.same
  /\ Len(apis) > 0
  /\ calls = 2
  /\ EntryAt(metadata, heap, DocTriple(apis[1].v)).added = now

(***************************************************************************)
(* The marking phase for providers with few and with many services        *)
(***************************************************************************)
\* n services that hold no version
EmptyServices(n) == [i \in 1..n |-> [k |-> ToString(i), v |-> << >>]]

\* provider p with entry (p, '', a), a patch in that service and np services
\* in all; provider q with entry (q, s, a) and nq services in all
MarkSeed(np, nq, named) ==
  LET r == BuildRegistry(EmptyRegistry,
             <<PatchItem("p", "", 1),
               EntryItem("p", "", <<"a">>,
                         [SeedEntry("p", "", <<"a">>, Undef, 0, OldStamp, OldStamp, "u1")
                            EXCEPT !.filename = IF named THEN @ ELSE NoFile]),
               EntryItem("q", "s", <<"a">>,
                         SeedEntry("q", "s", <<"a">>, Undef, 0, OldStamp, OldStamp, "u3"))>>)
      grow(m, key, n) == Put(m, key, [Get(m, key) EXCEPT !.apis = @ \o EmptyServices(n - 1)])
  IN [m |-> grow(grow(r.m, "p", np), "q", nq), h |-> r.h]

MarkSeeds ==
  {MarkSeed(c[1], c[2], c[3]) :
     c \in {SmallLimit - 1, SmallLimit} \X {1, SmallLimit + 1} \X BOOLEAN}

MarkInit ==
  /\ now = FirstNow
  /\ \E r \in MarkSeeds : metadata = r.m /\ heap = r.h
  /\ apis = << >>
  /\ op = "init"
  /\ calls = 0
  /\ registryYaml = << >>
  /\ IdleRun

\* populateMetadata({}, pathspec, argv): no document was discovered
Mark ==
  \E spec \in PathSpecs, small \in BOOLEAN :
    /\ calls < MaxCalls
    /\ LET r == populateMetadata(metadata, heap, << >>, spec, small, now, {}, epoch)
       IN metadata' = r.m /\ heap' = r.h
    /\ apis' = << >>
    /\ res' = [kind |-> "mark", spec |-> spec, small |-> small]
    /\ op' = "populateMetadata"
    /\ calls' = calls + 1
    /\ UNCHANGED <<now, epoch, command, pathspec, argv, candidates, drivers, leads, pc,
                   idx, invoked, newCandidates, failures, exitCode, storeVars>>

MarkNext == Mark \/ NextProcess

MarkSpec == MarkInit /\ [][MarkNext]_vars

\* C21: in the marking phase with the small option, no entry of a provider
\* with 50 or more services has its run marker changed, every entry of a
\* provider with fewer services whose filename starts with the pathspec has
\* run set to the run token, every other entry keeps its run marker, and no
\* key of the registry, 'patch' included, is touched
SmallSkipsLargeProviders ==
  [][(res'.kind = "mark" /\ calls' # calls /\ res'.small) =>
       /\ metadata' = metadata
       /\ \A t \in Triples(metadata) :
            LET e == EntryAt(metadata, heap, t)
                e2 == EntryAt(metadata', heap', t)
            IN IF Len(Get(metadata, t[1]).apis) >= SmallLimit THEN e2.run = e.run
               ELSE IF e.filename # NoFile /\ StartsWith(e.filename, res'.spec)
               THEN e2 = [e EXCEPT !.run = now]
               ELSE e2 = e]_vars

\* a later process has marked with the small option under the default
\* pathspec: the entry of provider p, which has 50 services, keeps the marker
\* of the earlier process, and the entry of provider q, which has one, is marked
SmallWitness ==
  /\ op = "populateMetadata"
  /\ res.kind = "mark"
  /\ res.small
  /\ res.spec = defaultPathSpec
  /\ now > FirstNow
  /\ Len(Get(metadata, "p").apis) = SmallLimit
  /\ Len(Get(metadata, "q").apis) = 1
  /\ EntryAt(metadata, heap, <<"p", "", <<"a">>>>).filename # NoFile
  /\ EntryAt(metadata, heap, <<"p", "", <<"a">>>>).run < now
  /\ EntryAt(metadata, heap, <<"q", "s", <<"a">>>>).run = now

(***************************************************************************)
(* commands.remove, and the key 'patch' of a service                       *)
(***************************************************************************)
\* remove(candidate, metadata): the version key is deleted, then the service
\* when it has no key left, then the provider when it has no service left
remove(m, c) ==
  LET provider == Get(m, c.provider)
      service == Del(Get(provider.apis, c.service), c.version)
      services == IF Len(service) = 0 THEN Del(provider.apis, c.service)
                  ELSE Put(provider.apis, c.service, service)
  IN IF Len(services) = 0 THEN Del(m, c.provider)
     ELSE Put(m, c.provider, [provider EXCEPT !.apis = services])

\* main('remove', pathspec, options) up to the loop over the candidates, the
\* drivers skipped
RemoveSelect ==
  \E spec \in PathSpecs, filter \in {Undef, "none"} :
    /\ pc = "idle"
    /\ command' = "remove"
    /\ pathspec' = spec
    /\ argv' = [argv EXCEPT !.driver = filter, !.skipDrivers = TRUE]
    /\ LET r == getCandidates(metadata, heap, "remove", spec, filter, now, apis, drivers)
       IN /\ candidates' = r.result
          /\ drivers' = r.drivers
          /\ pc' = IF Len(r.result) = 0 THEN "wrapUp" ELSE "process"
    /\ op' = "getCandidates"
    /\ UNCHANGED <<now, metadata, heap, apis, calls, epoch, leads, idx, invoked, res,
                   newCandidates, failures, exitCode, storeVars>>

\* one turn of the loop over the candidates: commands.remove(candidate, metadata)
RemoveStep ==
  /\ pc = "process"
  /\ metadata' = remove(metadata, candidates[idx + 1])
  /\ pc' = IF idx + 1 = Len(candidates) THEN "wrapUp" ELSE "process"
  /\ idx' = IF idx + 1 = Len(candidates) THEN 0 ELSE idx + 1
  /\ res' = [kind |-> "removed"]
  /\ op' = "remove"
  /\ UNCHANGED <<now, heap, apis, calls, epoch, command, pathspec, argv, candidates,
                 drivers, leads, invoked, newCandidates, failures, exitCode, storeVars>>

\* the marking phase of an earlier call in the process
RemoveMark == pc = "idle" /\ Mark

RemoveNext == RemoveMark \/ RemoveSelect \/ RemoveStep

RemoveSpec == SelectInit /\ [][RemoveNext]_vars

\* the version keys of a service, 'patch' left out
VersionsOf(service) == {service[i].k : i \in 1..Len(service)} \ {PatchKey}

\* C22 as stated: the marking phase leaves the key 'patch' alone,
\* getCandidates returns no candidate with version 'patch', and remove does
\* not count 'patch' as a version: a service remove leaves in the registry
\* holds a version
PatchNeverAVersion ==
  [][/\ op' = "populateMetadata" => metadata' = metadata
     /\ \A i \in 1..Len(candidates') : candidates'[i].version # PatchKey
     /\ (pc = "process" /\ op' = "remove") =>
          LET c == ThisCandidate IN
          (Has(metadata', c.provider) /\ Has(Get(metadata', c.provider).apis, c.service))
            => VersionsOf(Get(Get(metadata', c.provider).apis, c.service)) # {}]_vars

(***************************************************************************)
(* The order of the stages of main                                         *)
(***************************************************************************)
\* C23: populateMetadata, when it runs, is the step before getCandidates;
\* the driver functions are invoked after getCandidates only; trimLeads runs
\* after getCandidates and after every driver function that is due has been
\* invoked; the ingestion of the leads and the command of the first candidate
\* come after trimLeads
StagesInOrder ==
  [][/\ op' = "populateMetadata" => op = "loadMetadata"
     /\ op' = "getCandidates" =>
          op = IF Truthy(argv.driver) THEN "loadMetadata" ELSE "populateMetadata"
     /\ op' = "runDrivers" => op \in {"getCandidates", "runDrivers"}
     /\ op' = "trimLeads" =>
          /\ op \in {"getCandidates", "runDrivers"}
          /\ \A P \in Providers : DriverDue(P) => invoked[P] = 1
     /\ (pc = "ingest" /\ op' = "add") => op \in {"trimLeads", "add"}
     /\ (pc = "process" /\ idx = 0 /\ op' \in Commands) => op \in {"trimLeads", "add"}]_vars

\* the command has been invoked for a candidate in a run that gathered
\* documents, reconciled them and invoked the driver of provider p
StagesWitness ==
  /\ op \in Commands
  /\ pc \in {"process", "wrapUp"}
  /\ Len(apis) > 0
  /\ invoked["p"] = 1
  /\ Len(candidates) > 0
FetchDriverNames == DriverNames \cup {"apisjson", "zip"}

\* registries whose providers are acquired by the drivers that fetch
FetchSeeds ==
  {BuildRegistry(EmptyRegistry,
                 <<EntryItem("p", "", <<"a">>,
                             SeedEntry("p", "", <<"a">>, "true", 0, OldStamp, OldStamp, "u1"))>>
                 \o SlotItems(<<"q", "s", <<"a">>>>, OldStamp, "u3")
                 \o <<DriverItem("p", c[1]), DriverItem("q", c[2])>>) :
     c \in {"apisjson", "google", "zip"} \X {"github", "zip"}}

FetchInit == Started(FetchSeeds)

\* argv.driver of the fetching runs
FetchFilters == {Undef, "zip"}

FetchStart == Enter({"update"}, PathSpecs, FetchFilters, {FALSE}, 1)

\* driverFuncs of all five drivers as a table
FetchTable == [d \in FetchDriverNames, p \in Providers |-> driverFuncs(d, p)]

FetchStep == RunDriver(FetchTable)

FetchNext == FetchStart \/ GatherStep \/ SelectStep \/ FetchStep \/ TrimStep

\* main of an update run, to the end of trimLeads
FetchSpec == FetchInit /\ [][FetchNext]_vars

\* C25: a driver call whose fetch got a response with a status that is not
\* OK returns false
NonOkReturnsFalse ==
  [][(pc = "drivers" /\ op' = "runDrivers" /\ ~res'.ok) => res'.kind = "false"]_vars

(***************************************************************************)
(* The options main hands to add for each remaining lead                   *)
(***************************************************************************)
\* registries whose first provider is acquired from an archive and whose
\* second provider from an index
LeadSeeds ==
  {BuildRegistry(EmptyRegistry,
                 <<EntryItem("p", "", <<"a">>,
                             SeedEntry("p", "", <<"a">>, "true", 0, OldStamp, OldStamp, "u1"))>>
                 \o (IF c[1] THEN SlotItems(<<"p", "", <<"b">>>>, OldStamp, "u2") ELSE << >>)
                 \o SlotItems(<<"q", "s", <<"a">>>>, OldStamp, "u3")
                 \o <<DriverItem("p", "github"), DriverItem("q", c[2])>>) :
     c \in BOOLEAN \X {"google", "apisjson"}}

\* the archive holds one new document, the index lists another
LeadDrivers(driver, provider) ==
  IF driver = "github"
  THEN {DriverResult("false", << >>, FALSE, FALSE),
        DriverResult("true",
                     <<[k |-> "u9",
                        v |-> Lead("s", provider, Undef,
                                   Resolve(<<"metadata", "/", provider, ".cache", "/",
                                             "s", ".yaml">>))]>>,
                     TRUE, FALSE)}
  ELSE IF driver \in {"google", "apisjson"}
  THEN {DriverResult("throw", << >>, FALSE, FALSE),
        DriverResult("true", <<[k |-> "u8", v |-> Lead("t", Undef, Undef, NoFile)]>>,
                     TRUE, FALSE)}
  ELSE {DriverResult("true", << >>, TRUE, FALSE)}

LeadInit == Started(LeadSeeds)

\* argv.driver of the runs that ingest leads
LeadFilters == {Undef, "github"}

LeadStart == Enter({"update"}, PathSpecs, LeadFilters, {FALSE}, 1)

\* the lead-returning drivers as a table
LeadTable == [d \in FetchDriverNames, p \in Providers |-> LeadDrivers(d, p)]

LeadDriverStep == RunDriver(LeadTable)

LeadIngest == IngestLead(NewAdds)

LeadNext ==
  LeadStart \/ GatherStep \/ SelectStep \/ LeadDriverStep \/ TrimStep \/ LeadIngest

\* main of an update run, to the end of the loop over the remaining leads
LeadSpec == LeadInit /\ [][LeadNext]_vars

\* C26: the options of each call of add in the loop over the remaining leads
\* hold a cached file and a provider only if the lead being ingested has them
OptionsFromThisLead ==
  [][(pc = "ingest" /\ op' = "add" /\ pc' # "aborted") =>
       LET lead == leads[idx + 1].v
       IN /\ lead.file = NoFile => argv'.cached = NoFile
          /\ ~Truthy(lead.provider) => argv'.providerKey = Undef]_vars

(***************************************************************************)
(* The preferred version of a service after an update run                  *)
(***************************************************************************)
\* a path that is no directory: the paths of the versions b1 and b2 of
\* provider p start with it
VersionPathSpec == JoinPath(<<defaultPathSpec, ProviderPath("p"), <<"b">>>>)

\* a service with the versions a (preferred), b1 and b2
PreferSeeds ==
  {BuildRegistry(EmptyRegistry,
                 <<EntryItem("p", "", <<"a">>,
                             SeedEntry("p", "", <<"a">>, "true", 0, OldStamp, OldStamp, "u1"))>>
                 \o SlotItems(<<"p", "", <<"b", "1">>>>, OldStamp, "u2")
                 \o SlotItems(<<"p", "", <<"b", "2">>>>, OldStamp, "u3")
                 \o <<DriverItem("p", d)>>) : d \in {"url", "google"}}

PreferInit == Started(PreferSeeds)

\* pathspecs of the runs over the versions of one service
PreferPathSpecs == {VersionPathSpec, JoinPath(<<defaultPathSpec, ProviderPath("p")>>)}

PreferStart == Enter({"update"}, PreferPathSpecs, {Undef}, {TRUE}, 1)

\* every definition file can be read and written
PreferWrap == WrapUp({{}})

PreferNext ==
  \/ PreferStart
  \/ GatherStep
  \/ SelectStep
  \/ TrimStep
  \/ ProcessStep
  \/ PreferWrap
  \/ SaveStep

\* an update run over the directory of a provider or over some of its versions
PreferSpec == PreferInit /\ [][PreferNext]_vars

PreferredOf(p, s) ==
  {t \in Triples(metadata) :
     t[1] = p /\ t[2] = s /\ EntryAt(metadata, heap, t).preferred = "true"}

\* C27: once wrapUp.update has run in an update run, no service holds two
\* version entries with preferred = true
OnePreferredPerService ==
  (command = "update" /\ pc \in {"save", "done"}) =>
    \A t \in Triples(metadata) : Cardinality(PreferredOf(t[1], t[2])) <= 1

(***************************************************************************)
(* The entries a rename leaves in the service                              *)
(***************************************************************************)
\* C28: an update that renames the version key of its candidate removes no
\* entry from the registry, and the registry holds no fewer version entries
\* after it than before
RenameKeepsOthers ==
  [][(/\ pc = "process"
      /\ command = "update"
      /\ res'.kind = "ok"
      /\ res'.newVersion # candidates[idx + 1].version) =>
       /\ \A id \in RegistryIds(metadata) : id \in RegistryIds(metadata')
       /\ Cardinality(Triples(metadata')) >= Cardinality(Triples(metadata))]_vars

(***************************************************************************)
(* The registry after an add that does not commit                          *)
(***************************************************************************)
\* C29: a call of add that ends before its commit point (response not OK,
\* invalid document, URL already held by the provider, no endpoint) leaves
\* the providers, the services and the entries of the registry as they were
UncommittedAddLeavesRegistry ==
  [][(/\ pc = "ingest"
      /\ op' = "add"
      /\ res'.kind \in {"notok", "invalid", "duplicate", "empty"}) =>
       /\ metadata' = metadata
       /\ heap' = heap]_vars

(***************************************************************************)
(* update of a candidate whose provider populateMetadata has created       *)
(***************************************************************************)
\* a registry with provider p; the definition file of provider q is on the
\* disk and not in the registry
TreeSeeds ==
  {BuildRegistry(EmptyRegistry,
                 <<EntryItem("p", "", <<"a">>,
                             SeedEntry("p", "", <<"a">>, pref, 0, OldStamp, OldStamp, "u1"))>>
                 \o <<DriverItem("p", "url")>>) : pref \in Tristate}

TreeInit == Started(TreeSeeds)

\* the directory of each provider
TreePathSpecs == {JoinPath(<<defaultPathSpec, ProviderPath(sp)>>) : sp \in Providers}

TreeStart == Enter({"update"}, TreePathSpecs, {Undef}, BOOLEAN, 1)

\* gather finds the files of the registry and the file of provider q
TreeGather ==
  /\ pc = "gather"
  /\ Cardinality(UsedIds(heap)) < MaxObj
  /\ \E d \in {Doc("q", "s", <<"a">>, pref, "u3", 0) : pref \in {Undef, "true"}} :
       /\ apis' = gather(metadata, heap, pathspec)
                    \o (IF StartsWith(d.filename, pathspec \o <<"/">>)
                        THEN <<[k |-> d.filename, v |-> d]>> ELSE << >>)
       /\ LET r == populateMetadata(metadata, heap, apis', pathspec, argv.small, now,
                                    Roots, epoch)
          IN metadata' = r.m /\ heap' = r.h
  /\ pc' = "select"
  /\ op' = "populateMetadata"
  /\ UNCHANGED <<now, calls, epoch, command, pathspec, argv, candidates, drivers, leads,
                 idx, invoked, res, newCandidates, failures, exitCode, storeVars>>

TreeNext ==
  \/ TreeStart
  \/ TreeGather
  \/ SelectStep
  \/ DriverStep
  \/ TrimStep
  \/ ProcessStep
  \/ WrapUpStep
  \/ SaveStep

\* an update run over a directory that holds a definition of a new provider
TreeSpec == TreeInit /\ [][TreeNext]_vars

\* the keys of a Provider record that are optional
OptionalKeys(provider) ==
  (IF provider.method THEN {"method"} ELSE {})
  \cup (IF provider.data THEN {"data"} ELSE {})
  \cup (IF provider.patch # 0 THEN {"patch"} ELSE {})

\* C30: processing a candidate with update leaves the keys of the
\* candidate's Provider record as they were
UpdateAddsNoProviderKey ==
  [][(pc = "process" /\ op' = "update") =>
       LET c == candidates[idx + 1]
       IN OptionalKeys(Get(metadata', c.provider)) = OptionalKeys(Get(metadata, c.provider))]_vars

====
